---- MODULE Spec2Model ----
(***************************************************************************)
(* Blog / Project CRUD API of BunBackEndV2.                                 *)
(*                                                                         *)
(* Two deployments of the same HTTP surface are modelled:                   *)
(*   backend = "relational" : Hono routes (routes/blogs, routes/projects)   *)
(*                            -> validation middleware -> BlogStorage /     *)
(*                            ProjectStorage (drizzle, server/storage.ts)   *)
(*   backend = "firestore"  : OpenAPIHono routes writing to Firestore       *)
(*                            collections (server/routes/blogs.ts,          *)
(*                            server/routes/projects.ts)                    *)
(* One step of the model is one HTTP request handled to completion.         *)
(***************************************************************************)
EXTENDS Integers, Sequences, FiniteSets, TLC

VARIABLES
    backend,   \* which deployment serves the requests
    now,       \* the wall clock
    db,        \* the store: kind -> key -> entity
    serial,    \* per kind, the number of ids assigned so far
    req,       \* the request handled last
    resp,      \* the response to it
    calls,     \* the persistence calls the last request issued, in order
    faulty,    \* whether persistence calls can throw
    thrown,    \* the exception raised while the last request was handled
    uploads,   \* the files in the object store / uploads directory
    inflight,  \* per client, the request it has in progress (concurrent run)
    writes     \* the storage writes of the concurrent run, in applied order

vars == <<backend, now, db, serial, req, resp, calls, faulty, thrown,
          uploads, inflight, writes>>

\* What the CRUD handlers, run one at a time, never touch.
aside == <<uploads, inflight, writes>>

\* ------------------------------------------------------------------ bounds
\* Last instant of the wall clock: the clock starts at 0 and every write
\* that reads it finds it one tick later, up to MaxTime.
MaxTime == 2
\* Total number of rows / documents ever inserted.
MaxRows == 2

\* ------------------------------------------------------------------ values
Kinds == {"blogs", "projects"}

\* Every JS / JSON value is a record tagged with its type in field t.
\* null
Null == [t |-> "null"]
\* undefined, as the value of a key that is present
Undefined == [t |-> "undefined"]
\* A string.
Str(s) == [t |-> "str", v |-> s]
\* A number.
Num(n) == [t |-> "num", v |-> n]
\* A key that is not present in an object.
Absent == [t |-> "absent"]
\* An ISO-8601 datetime string denoting instant ms.
IsoString(ms) == [t |-> "iso", ms |-> ms]
\* A JS Date (a SQL timestamp column value) denoting instant ms.
Date(ms) == [t |-> "date", ms |-> ms]
\* A Firestore Timestamp denoting instant ms.
Timestamp(ms) == [t |-> "ts", ms |-> ms]
\* A boolean.
Bool(b) == [t |-> "bool", v |-> b]
\* A JSON array.
Array(items) == [t |-> "array", items |-> items]

EmptyObject == [k \in {} |-> ""]

Has(o, k) == k \in DOMAIN o

\* obj with key k (re)assigned: { ...obj, k: v }
With(o, k, v) == (k :> v) @@ o

\* obj.k, where an absent key reads as undefined
Read(o, k) == IF Has(o, k) THEN o[k] ELSE Undefined

\* JS truthiness: undefined, null, "" and 0 are falsy; objects are truthy.
Truthy(v) == v \notin {Undefined, Null, Str(""), Num(0)}

\* ------------------------------------------------------------------ inputs
StatusOpts == {"-", "draft", "published"}

\* publishedAt of a request body: absent, null, or a datetime string (of
\* instant 0, before every instant the server clock shows).
PublishedAtOpts == {Absent, Null, IsoString(0)}

MkBody(title, status, publishedAt) ==
    (IF title = "-" THEN EmptyObject ELSE ("title" :> Str(title)))
    @@ (IF status = "-" THEN EmptyObject ELSE ("status" :> Str(status)))
    @@ (IF publishedAt = Absent THEN EmptyObject ELSE ("publishedAt" :> publishedAt))

\* .max(255): the longest title the schemas accept.
MaxTitleLen == 255

\* A title of n characters.
RECURSIVE Title(_)
Title(n) ==
    IF n = 0 THEN ""
    ELSE LET half == Title(n \div 2)
         IN half \o half \o (IF n % 2 = 1 THEN "t" ELSE "")

\* Inputs that only the requests to a reliable store that started empty are
\* drawn from: the requests to a store whose calls can throw, and to a store
\* that started with an entity (logged in writes), use the smaller alphabet.
Extra(inputs) == IF faulty \/ writes # <<>> THEN {} ELSE inputs

\* A request body that is not JSON.
Malformed == [malformed |-> TRUE]

\* Bodies that violate every schema: an empty title, a body that is not JSON.
BadBodies == {MkBody("", "-", Absent), Malformed}

\* POST bodies: title "A" and isGroup false with every status / publishedAt,
\* bodies without status with isGroup absent or true, drafts whose title has
\* 0, 255 and 256 characters, a body without title, and the bad bodies. The fields the model does not follow (content, the
\* links) are taken to be present and valid.
CreateBodies ==
    {With(MkBody("A", st, pa), "isGroup", Bool(FALSE)) :
        st \in StatusOpts, pa \in PublishedAtOpts}
    \cup {MkBody("A", "-", Absent), MkBody("A", "-", Null),
          With(MkBody("A", "-", Null), "isGroup", Bool(TRUE))}
    \cup Extra({With(MkBody(Title(n), "draft", Null), "isGroup", Bool(FALSE)) :
                   n \in {0, MaxTitleLen, MaxTitleLen + 1}})
    \cup {MkBody("-", "-", Absent)} \cup BadBodies

\* A PUT body that names id and createdAt next to a title.
ForgedBody == With(With(MkBody("X", "-", Absent), "id", Num(7)), "createdAt", IsoString(2))

\* PUT bodies: title absent or "X" with every status / publishedAt, the body
\* naming id and createdAt, a title of 256 characters, and the bad bodies.
UpdateBodies ==
    {MkBody(ti, st, pa) : ti \in {"-", "X"}, st \in StatusOpts, pa \in PublishedAtOpts}
    \cup Extra({ForgedBody, MkBody(Title(MaxTitleLen + 1), "-", Absent)}) \cup BadBodies

\* ?status= query values ("-" : no status parameter).
StatusQueries == {"-", "draft", "published", "archived"}

\* /:id path parameters, as character sequences.
IdParams == {<<"1">>, <<"2">>, <<"0">>} \cup Extra({<<"1", "x">>, <<"x">>})

NoParam == <<>>

\* -------------------------------------------------------------- validation
\* z.string().min(1).max(255)            (.optional() when ~required)
TitleIssues(body, required) ==
    IF ~Has(body, "title")
    THEN IF required THEN {"title"} ELSE {}
    ELSE IF body.title.t = "str" /\ Len(body.title.v) >= 1
                                 /\ Len(body.title.v) <= MaxTitleLen
         THEN {} ELSE {"title"}

\* z.string()                            (projectBaseSchema: any string)
AnyTitleIssues(body) ==
    IF Has(body, "title") /\ body.title.t = "str" THEN {} ELSE {"title"}

\* z.enum(['draft', 'published'])       (.optional() / .default() when ~required)
StatusIssues(body, required) ==
    IF ~Has(body, "status")
    THEN IF required THEN {"status"} ELSE {}
    ELSE IF body.status \in {Str("draft"), Str("published")} THEN {} ELSE {"status"}

\* z.string().datetime().optional().or(z.null())
PublishedAtIssues(body) ==
    IF ~Has(body, "publishedAt") \/ body.publishedAt = Null
                                \/ body.publishedAt.t = "iso"
    THEN {} ELSE {"publishedAt"}

\* z.string().datetime().nullable()      (projectBaseSchema: the key is required)
NullablePublishedAtIssues(body) ==
    IF Has(body, "publishedAt") /\ (body.publishedAt = Null \/ body.publishedAt.t = "iso")
    THEN {} ELSE {"publishedAt"}

\* z.boolean()                          (.optional() / .default() when ~required)
IsGroupIssues(body, required) ==
    IF ~Has(body, "isGroup")
    THEN IF required THEN {"isGroup"} ELSE {}
    ELSE IF body.isGroup.t = "bool" THEN {} ELSE {"isGroup"}

\* .default(false)
DefaultIsGroup(body) ==
    IF Has(body, "isGroup") THEN body ELSE With(body, "isGroup", Bool(FALSE))

\* The fields of a blog / project schema that the model follows.
BlogKeys == {"title", "status", "publishedAt"}

ProjectKeys == BlogKeys \cup {"isGroup"}

\* A parse that passes unknown keys through
Strip_Passthrough(body, keys) == body

\* z.object(...).parse keeps only the keys the schema names.
Strip(body, keys) == [k \in (DOMAIN body) \cap keys |-> body[k]]

\* .default('draft')
DefaultStatus(body) ==
    IF Has(body, "status") THEN body ELSE With(body, "status", Str("draft"))

Parsed(issues, data) == [ok |-> issues = {}, issues |-> issues, data |-> data]

createBlogSchema(body) ==
    Parsed(TitleIssues(body, TRUE) \cup StatusIssues(body, FALSE) \cup PublishedAtIssues(body),
           DefaultStatus(Strip(body, BlogKeys)))

updateBlogSchema(body) ==
    Parsed(TitleIssues(body, FALSE) \cup StatusIssues(body, FALSE) \cup PublishedAtIssues(body),
           Strip(body, BlogKeys))

createProjectSchema(body) ==
    Parsed(TitleIssues(body, TRUE) \cup StatusIssues(body, FALSE) \cup PublishedAtIssues(body)
                                  \cup IsGroupIssues(body, FALSE),
           DefaultIsGroup(DefaultStatus(Strip(body, ProjectKeys))))

updateProjectSchema(body) ==
    Parsed(TitleIssues(body, FALSE) \cup StatusIssues(body, FALSE) \cup PublishedAtIssues(body)
                                   \cup IsGroupIssues(body, FALSE),
           Strip(body, ProjectKeys))

\* statusQuerySchema: status is z.enum(['draft', 'published']).optional()
statusQuerySchema(q) == q \in {"-", "draft", "published"}

\* parseInt of a character sequence: the longest prefix of decimal digits.
DigitVal ==
    "0" :> 0 @@ "1" :> 1 @@ "2" :> 2 @@ "3" :> 3 @@ "4" :> 4 @@
    "5" :> 5 @@ "6" :> 6 @@ "7" :> 7 @@ "8" :> 8 @@ "9" :> 9

IsDigit(c) == c \in DOMAIN DigitVal

RECURSIVE ParseDigits(_, _, _)
ParseDigits(s, i, acc) ==
    IF i > Len(s) \/ ~IsDigit(s[i]) THEN acc
    ELSE ParseDigits(s, i + 1, acc * 10 + DigitVal[s[i]])

NaN == [nan |-> TRUE, n |-> 0]

parseInt(s) ==
    IF s = <<>> THEN NaN
    ELSE IF s[1] = "-"
         THEN IF Len(s) >= 2 /\ IsDigit(s[2])
              THEN [nan |-> FALSE, n |-> 0 - ParseDigits(s, 2, 0)] ELSE NaN
         ELSE IF IsDigit(s[1]) THEN [nan |-> FALSE, n |-> ParseDigits(s, 1, 0)] ELSE NaN

\* validateIdParam: ok iff the handler is reached, with c.get('id') = id.
validateIdParam(param) ==
    LET parsedId == parseInt(param)
    IN IF parsedId.nan \/ parsedId.n <= 0
       THEN [ok |-> FALSE, id |-> 0]
       ELSE [ok |-> TRUE, id |-> parsedId.n]

\* A validateBody that lets every body through to the handler
validateBody_NoCheck(parsed, body) ==
    [ok |-> TRUE, data |-> IF body = Malformed THEN EmptyObject ELSE body,
     resp |-> [code |-> 200, body |-> EmptyObject]]

\* validateBody(schema), parsed being the outcome of schema.parse(body): ok iff
\* the handler is reached, with c.get('validatedData') = data; otherwise resp
\* is the 400 reply.
validateBody(parsed, body) ==
    IF body = Malformed
    THEN [ok |-> FALSE, data |-> EmptyObject,
          resp |-> [code |-> 400, body |-> [error |-> <<"Invalid JSON format">>]]]
    ELSE LET p == parsed
         IN IF p.ok
            THEN [ok |-> TRUE, data |-> p.data, resp |-> [code |-> 200, body |-> EmptyObject]]
            ELSE [ok |-> FALSE, data |-> EmptyObject,
                  resp |-> [code |-> 400,
                            body |-> [error |-> <<"Validation failed">>,
                                      details |-> p.issues]]]

\* validateQuery(statusQuerySchema)
validateQuery(q) ==
    IF statusQuerySchema(q)
    THEN [ok |-> TRUE, resp |-> [code |-> 200, body |-> EmptyObject]]
    ELSE [ok |-> FALSE,
          resp |-> [code |-> 400,
                    body |-> [error |-> <<"Invalid query parameters">>,
                              details |-> {"status"}]]]

\* ------------------------------------------------------- relational store
\* Columns of the blogs table that the model follows.
Columns == {"id", "title", "status", "publishedAt", "createdAt", "updatedAt"}

\* Columns of the projects table that the model follows.
ProjectColumns == Columns \cup {"isGroup"}

EmptyTable == [i \in {} |-> Null]

\* Value of a column the INSERT does not supply: id serial, createdAt /
\* updatedAt default now(), status default 'draft', the others NULL.
ColumnDefault(c, id, t) ==
    CASE c = "id" -> Num(id)
      [] c \in {"createdAt", "updatedAt"} -> Date(t)
      [] c = "status" -> Str("draft")
      [] c = "isGroup" -> Bool(FALSE)
      [] OTHER -> Null

\* db.insert(table).values(values).returning()
SqlInsert(cols, tbl, id, values, t) ==
    LET row == [c \in cols |->
                  IF Read(values, c) # Undefined THEN values[c]
                  ELSE ColumnDefault(c, id, t)]
    IN [tbl |-> (id :> row) @@ tbl, rows |-> <<row>>]

\* An update without its WHERE clause: every row is set
SqlUpdate_NoWhere(tbl, id, set) ==
    IF id \in DOMAIN tbl
    THEN LET all == [i \in DOMAIN tbl |->
                       [c \in DOMAIN tbl[i] |->
                          IF Read(set, c) # Undefined THEN set[c] ELSE tbl[i][c]]]
         IN [tbl |-> all, rows |-> <<all[id]>>]
    ELSE [tbl |-> tbl, rows |-> <<>>]

\* An update that rewrites the whole row, the columns it is not given
\* falling back to their defaults
SqlUpdate_Replace(tbl, id, set) ==
    IF id \in DOMAIN tbl
    THEN LET row == [c \in DOMAIN tbl[id] |->
                       IF Read(set, c) # Undefined THEN set[c]
                       ELSE IF c = "id" THEN tbl[id][c] ELSE Null]
         IN [tbl |-> [tbl EXCEPT ![id] = row], rows |-> <<row>>]
    ELSE [tbl |-> tbl, rows |-> <<>>]

\* db.update(table).set(set).where(eq(table.id, id)).returning()
\* (keys whose value is undefined are left out of the SET clause)
SqlUpdate(tbl, id, set) ==
    IF id \in DOMAIN tbl
    THEN LET row == [c \in DOMAIN tbl[id] |->
                       IF Read(set, c) # Undefined THEN set[c] ELSE tbl[id][c]]
         IN [tbl |-> [tbl EXCEPT ![id] = row], rows |-> <<row>>]
    ELSE [tbl |-> tbl, rows |-> <<>>]

\* A delete that returns the id and keeps the row
SqlDelete_KeepsRow(tbl, id) ==
    IF id \in DOMAIN tbl
    THEN [tbl |-> tbl, rows |-> <<Num(id)>>]
    ELSE [tbl |-> tbl, rows |-> <<>>]

\* db.delete(table).where(eq(table.id, id)).returning({ id })
SqlDelete(tbl, id) ==
    IF id \in DOMAIN tbl
    THEN [tbl |-> [i \in (DOMAIN tbl) \ {id} |-> tbl[i]], rows |-> <<Num(id)>>]
    ELSE [tbl |-> tbl, rows |-> <<>>]

\* db.select().from(table).where(eq(table.id, id))
SqlSelectById(tbl, id) == IF id \in DOMAIN tbl THEN <<tbl[id]>> ELSE <<>>

\* The instant a stored timestamp denotes.
Ms(v) == v.ms

\* The rows with keys ks ordered by createdAt ascending
DescOrders_Ascending(tbl, ks) ==
    {s \in [1..Cardinality(ks) -> ks] :
        /\ \A i, j \in DOMAIN s : i # j => s[i] # s[j]
        /\ \A i, j \in DOMAIN s : i < j => Ms(tbl[s[i]].createdAt) <= Ms(tbl[s[j]].createdAt)}

\* All orders in which the rows with keys ks can be returned ORDER BY
\* createdAt DESC (rows with equal createdAt come in any order).
DescOrders(tbl, ks) ==
    {s \in [1..Cardinality(ks) -> ks] :
        /\ \A i, j \in DOMAIN s : i # j => s[i] # s[j]
        /\ \A i, j \in DOMAIN s : i < j => Ms(tbl[s[i]].createdAt) >= Ms(tbl[s[j]].createdAt)}

\* db.select().from(table).orderBy(desc(createdAt)) [.where(eq(status, status))]
SqlSelectOrdered(tbl, filtered, status) ==
    LET ks == {i \in DOMAIN tbl : ~filtered \/ tbl[i].status = status}
    IN {[n \in DOMAIN s |-> tbl[s[n]]] : s \in DescOrders(tbl, ks)}

\* ------------------------------------------------- storage.ts: BlogStorage
\* getAllBlogs(status): the possible results.
getAllBlogs(tbl, status) == SqlSelectOrdered(tbl, Truthy(status), status)

\* getBlog(id): the row, or undefined.
getBlog(tbl, id) ==
    LET rows == SqlSelectById(tbl, id)
    IN IF rows # <<>> THEN rows[1] ELSE Undefined

\* createBlog without the publish-timestamp rule.
createBlog_NoStamp(tbl, id, insertBlog, t) ==
    LET r == SqlInsert(Columns, tbl, id, With(insertBlog, "updatedAt", Date(t)), t)
    IN [tbl |-> r.tbl, result |-> r.rows[1]]

\* createBlog stamping publishedAt whatever the status
createBlog_AlwaysStamp(tbl, id, insertBlog, t) ==
    LET blogData == With(insertBlog, "updatedAt", Date(t))
        stamped == IF ~Truthy(Read(blogData, "publishedAt"))
                   THEN With(blogData, "publishedAt", Date(t)) ELSE blogData
        r == SqlInsert(Columns, tbl, id, stamped, t)
    IN [tbl |-> r.tbl, result |-> r.rows[1]]

\* createBlog(insertBlog), run at instant t with id the next serial value.
createBlog(tbl, id, insertBlog, t) ==
    LET blogData == With(insertBlog, "updatedAt", Date(t))
        stamped ==
            IF Read(blogData, "status") = Str("published")
               /\ ~Truthy(Read(blogData, "publishedAt"))
            THEN With(blogData, "publishedAt", Date(t))
            ELSE blogData
        r == SqlInsert(Columns, tbl, id, stamped, t)
    IN [tbl |-> r.tbl, result |-> r.rows[1]]

\* updateBlog without the publish-timestamp rule.
updateBlog_NoStamp(tbl, id, upd, t) ==
    LET r == SqlUpdate(tbl, id, With(upd, "updatedAt", Date(t)))
    IN [tbl |-> r.tbl, result |-> IF r.rows # <<>> THEN r.rows[1] ELSE Undefined]

\* updateData that never stamps publishedAt
UpdateData_NoPublish(upd, t) == With(upd, "updatedAt", Date(t))

\* updateData without the updatedAt stamp
UpdateData_Unstamped(upd, t) == upd

\* updateData of updateBlog / updateProject, built at instant t before the
\* statement is awaited.
UpdateData(upd, t) ==
    LET updateData == With(upd, "updatedAt", Date(t))
    IN IF Read(updateData, "status") = Str("published")
          /\ ~Truthy(Read(updateData, "publishedAt"))
       THEN With(updateData, "publishedAt", Date(t))
       ELSE updateData

\* updateBlog(id, updateBlog), run at instant t.
updateBlog(tbl, id, upd, t) ==
    LET r == SqlUpdate(tbl, id, UpdateData(upd, t))
    IN [tbl |-> r.tbl, result |-> IF r.rows # <<>> THEN r.rows[1] ELSE Undefined]

\* deleteBlog reporting a deletion whatever the statement returned
deleteBlog_AlwaysDeleted(tbl, id) ==
    LET r == SqlDelete(tbl, id)
    IN [tbl |-> r.tbl, result |-> TRUE]

\* deleteBlog(id)
deleteBlog(tbl, id) ==
    LET r == SqlDelete(tbl, id)
    IN [tbl |-> r.tbl, result |-> Len(r.rows) > 0]

\* ---------------------------------------------- storage.ts: ProjectStorage
getAllProjects(tbl, status) == SqlSelectOrdered(tbl, Truthy(status), status)

getProject(tbl, id) ==
    LET rows == SqlSelectById(tbl, id)
    IN IF rows # <<>> THEN rows[1] ELSE Undefined

createProject(tbl, id, insertProject, t) ==
    LET projectData == With(insertProject, "updatedAt", Date(t))
        stamped ==
            IF Read(projectData, "status") = Str("published")
               /\ ~Truthy(Read(projectData, "publishedAt"))
            THEN With(projectData, "publishedAt", Date(t))
            ELSE projectData
        r == SqlInsert(ProjectColumns, tbl, id, stamped, t)
    IN [tbl |-> r.tbl, result |-> r.rows[1]]

updateProject(tbl, id, upd, t) ==
    LET r == SqlUpdate(tbl, id, UpdateData(upd, t))
    IN [tbl |-> r.tbl, result |-> IF r.rows # <<>> THEN r.rows[1] ELSE Undefined]

deleteProject(tbl, id) ==
    LET r == SqlDelete(tbl, id)
    IN [tbl |-> r.tbl, result |-> Len(r.rows) > 0]

\* ------------------------------------------------------------- responses
\* c.json(value): a Date is serialised as its ISO string.
Json(v) == IF v.t = "date" THEN IsoString(v.ms) ELSE v

JsonObject(o) == [k \in DOMAIN o |-> Json(o[k])]

JsonArray(rows) == Array([n \in DOMAIN rows |-> JsonObject(rows[n])])

\* ApiResponse<T> with success: true
ApiOk(code, data, message) ==
    [code |-> code, body |-> [success |-> TRUE, data |-> data, message |-> message]]

\* ApiResponse<null> with success: false
ApiFail(code, error) ==
    [code |-> code, body |-> [success |-> FALSE, data |-> Null, error |-> error]]

Noun(kind) == IF kind = "blogs" THEN "Blog" ELSE "Project"

noun(kind) == IF kind = "blogs" THEN "blog" ELSE "project"

\* `${n}` for a non-negative integer n: its decimal digits.
DigitChar == <<"0", "1", "2", "3", "4", "5", "6", "7", "8", "9">>

RECURSIVE Decimal(_)
Decimal(n) ==
    IF n < 10 THEN <<DigitChar[n + 1]>>
    ELSE Decimal(n \div 10) \o <<DigitChar[(n % 10) + 1]>>

\* A not-found message that does not name the id
NotFoundMessage_NoId(kind, id) == <<Noun(kind), " not found">>

\* `Blog with ID ${id} not found`
NotFoundMessage(kind, id) == <<Noun(kind), " with ID ">> \o Decimal(id) \o <<" not found">>

TryAgain(verb, what) == <<"Failed to ", verb, " ", what, ". Please try again later.">>

\* ?status= as the validated query object's status
QueryStatus(q) == IF q = "-" THEN Undefined ELSE Str(q)

Request(op, kind, param, query, body) ==
    [op |-> op, kind |-> kind, param |-> param, query |-> query, body |-> body]

\* No exception.
NoFault == [at |-> 0, message |-> "-"]

\* Messages of the exceptions a persistence call throws.
ErrorTexts == {"ECONNREFUSED"}

\* What can go wrong while one request is handled: its at-th persistence call
\* throws an Error with the given message (a handler issues at most three
\* calls), or, always possible, nothing throws.
Faults ==
    {NoFault} \cup
    (IF faulty THEN {[at |-> k, message |-> m] : k \in {1, 2, 3}, m \in ErrorTexts}
     ELSE {})

\* The faults of a request that makes n persistence calls.
FaultsUpTo(n) == {f \in Faults : f.at <= n}

\* The instants at which a handler entered at `now` can read the clock.
Instants == {t \in {now + 1} : t <= MaxTime}

\* ------------------------------------ relational routes: kind -> storage
StorageGetAll(kind, tbl, status) ==
    IF kind = "blogs" THEN getAllBlogs(tbl, status) ELSE getAllProjects(tbl, status)

StorageGet(kind, tbl, id) ==
    IF kind = "blogs" THEN getBlog(tbl, id) ELSE getProject(tbl, id)

StorageCreate(kind, tbl, id, data, t) ==
    IF kind = "blogs" THEN createBlog(tbl, id, data, t) ELSE createProject(tbl, id, data, t)

StorageUpdate(kind, tbl, id, data, t) ==
    IF kind = "blogs" THEN updateBlog(tbl, id, data, t) ELSE updateProject(tbl, id, data, t)

StorageDelete(kind, tbl, id) ==
    IF kind = "blogs" THEN deleteBlog(tbl, id) ELSE deleteProject(tbl, id)

CreateSchema(kind, body) ==
    IF kind = "blogs" THEN createBlogSchema(body) ELSE createProjectSchema(body)

UpdateSchema(kind, body) ==
    IF kind = "blogs" THEN updateBlogSchema(body) ELSE updateProjectSchema(body)

\* POST handler: { ...validatedData, publishedAt: publishedAt ? new Date(publishedAt) : null }
PostData(validatedData) ==
    With(validatedData, "publishedAt",
         IF Truthy(Read(validatedData, "publishedAt"))
         THEN Date(validatedData.publishedAt.ms) ELSE Null)

\* PUT handler passing an explicit publishedAt: null on to the storage
PutData_KeepsNull(validatedData) ==
    IF Has(validatedData, "publishedAt")
    THEN With(validatedData, "publishedAt",
              IF Truthy(validatedData.publishedAt)
              THEN Date(validatedData.publishedAt.ms) ELSE Null)
    ELSE With(validatedData, "publishedAt", Undefined)

\* PUT handler passing publishedAt: null for a payload without publishedAt
PutData_Null(validatedData) ==
    With(validatedData, "publishedAt",
         IF Truthy(Read(validatedData, "publishedAt"))
         THEN Date(validatedData.publishedAt.ms) ELSE Null)

\* PUT handler: { ...validatedData, publishedAt: publishedAt ? new Date(publishedAt) : undefined }
PutData(validatedData) ==
    With(validatedData, "publishedAt",
         IF Truthy(Read(validatedData, "publishedAt"))
         THEN Date(validatedData.publishedAt.ms) ELSE Undefined)

Rows == serial.blogs + serial.projects

\* GET /blogs, GET /projects
RelList ==
    /\ backend = "relational"
    /\ \E kind \in Kinds, q \in StatusQueries, f \in FaultsUpTo(1) :
        LET v == validateQuery(q)
        IN /\ req' = Request("list", kind, NoParam, q, EmptyObject)
           /\ IF ~v.ok
              THEN resp' = v.resp /\ calls' = <<>> /\ thrown' = NoFault
              ELSE IF f.at = 1
              THEN /\ resp' = ApiFail(500, TryAgain("fetch", kind))
                   /\ calls' = <<"select">>
                   /\ thrown' = f
              ELSE /\ \E list \in StorageGetAll(kind, db[kind], QueryStatus(q)) :
                        resp' = ApiOk(200, JsonArray(list),
                                      <<"Retrieved ">> \o Decimal(Len(list)) \o <<" ", kind>>)
                   /\ calls' = <<"select">>
                   /\ thrown' = NoFault
    /\ UNCHANGED <<backend, now, db, serial, faulty, aside>>

\* GET /blogs/:id, GET /projects/:id
RelGet ==
    /\ backend = "relational"
    /\ \E kind \in Kinds, param \in IdParams, f \in FaultsUpTo(1) :
        LET v == validateIdParam(param)
            found == StorageGet(kind, db[kind], v.id)
        IN /\ req' = Request("get", kind, param, "-", EmptyObject)
           /\ IF ~v.ok
              THEN /\ resp' = [code |-> 400,
                               body |-> [error |-> <<"Invalid ID parameter. Must be a positive integer.">>]]
                   /\ calls' = <<>>
                   /\ thrown' = NoFault
              ELSE IF f.at = 1
              THEN /\ resp' = ApiFail(500, TryAgain("fetch", noun(kind)))
                   /\ calls' = <<"select">>
                   /\ thrown' = f
              ELSE /\ IF ~Truthy(found)
                      THEN resp' = ApiFail(404, NotFoundMessage(kind, v.id))
                      ELSE resp' = ApiOk(200, JsonObject(found),
                                         <<Noun(kind), " retrieved successfully">>)
                   /\ calls' = <<"select">>
                   /\ thrown' = NoFault
    /\ UNCHANGED <<backend, now, db, serial, faulty, aside>>

\* POST /blogs, POST /projects
RelPost ==
    /\ backend = "relational"
    /\ \E kind \in Kinds, body \in CreateBodies, t \in Instants, f \in FaultsUpTo(1) :
        LET v == validateBody(CreateSchema(kind, body), body)
            r == StorageCreate(kind, db[kind], serial[kind] + 1, PostData(v.data), t)
        IN /\ req' = Request("create", kind, NoParam, "-", body)
           /\ IF ~v.ok
              THEN /\ resp' = v.resp
                   /\ calls' = <<>>
                   /\ thrown' = NoFault
                   /\ UNCHANGED <<now, db, serial>>
              ELSE IF f.at = 1
              THEN /\ resp' = ApiFail(500, TryAgain("create", noun(kind)))
                   /\ calls' = <<"insert">>
                   /\ thrown' = f
                   /\ UNCHANGED <<now, db, serial>>
              ELSE /\ Rows < MaxRows
                   /\ db' = [db EXCEPT ![kind] = r.tbl]
                   /\ serial' = [serial EXCEPT ![kind] = @ + 1]
                   /\ now' = t
                   /\ resp' = ApiOk(201, JsonObject(r.result),
                                    <<Noun(kind), " created successfully">>)
                   /\ calls' = <<"insert">>
                   /\ thrown' = NoFault
    /\ UNCHANGED <<backend, faulty, aside>>

\* PUT /blogs/:id, PUT /projects/:id
RelPut ==
    /\ backend = "relational"
    /\ \E kind \in Kinds, param \in IdParams, body \in UpdateBodies, t \in Instants,
          f \in FaultsUpTo(1) :
        LET vid == validateIdParam(param)
            v == validateBody(UpdateSchema(kind, body), body)
            r == StorageUpdate(kind, db[kind], vid.id, PutData(v.data), t)
        IN /\ req' = Request("update", kind, param, "-", body)
           /\ IF ~vid.ok
              THEN /\ resp' = [code |-> 400,
                               body |-> [error |-> <<"Invalid ID parameter. Must be a positive integer.">>]]
                   /\ calls' = <<>>
                   /\ thrown' = NoFault
                   /\ UNCHANGED <<now, db>>
              ELSE IF ~v.ok
              THEN /\ resp' = v.resp
                   /\ calls' = <<>>
                   /\ thrown' = NoFault
                   /\ UNCHANGED <<now, db>>
              ELSE IF f.at = 1
              THEN /\ resp' = ApiFail(500, TryAgain("update", noun(kind)))
                   /\ calls' = <<"update">>
                   /\ thrown' = f
                   /\ UNCHANGED <<now, db>>
              ELSE /\ db' = [db EXCEPT ![kind] = r.tbl]
                   /\ calls' = <<"update">>
                   /\ thrown' = NoFault
                   /\ IF ~Truthy(r.result)
                      THEN /\ resp' = ApiFail(404, NotFoundMessage(kind, vid.id))
                           /\ UNCHANGED now
                      ELSE /\ resp' = ApiOk(200, JsonObject(r.result),
                                            <<Noun(kind), " updated successfully">>)
                           /\ now' = t
    /\ UNCHANGED <<backend, serial, faulty, aside>>

\* DELETE /blogs/:id, DELETE /projects/:id
RelDelete ==
    /\ backend = "relational"
    /\ \E kind \in Kinds, param \in IdParams, f \in FaultsUpTo(1) :
        LET vid == validateIdParam(param)
            r == StorageDelete(kind, db[kind], vid.id)
        IN /\ req' = Request("delete", kind, param, "-", EmptyObject)
           /\ IF ~vid.ok
              THEN /\ resp' = [code |-> 400,
                               body |-> [error |-> <<"Invalid ID parameter. Must be a positive integer.">>]]
                   /\ calls' = <<>>
                   /\ thrown' = NoFault
                   /\ UNCHANGED db
              ELSE IF f.at = 1
              THEN /\ resp' = ApiFail(500, TryAgain("delete", noun(kind)))
                   /\ calls' = <<"delete">>
                   /\ thrown' = f
                   /\ UNCHANGED db
              ELSE /\ db' = [db EXCEPT ![kind] = r.tbl]
                   /\ calls' = <<"delete">>
                   /\ thrown' = NoFault
                   /\ IF ~r.result
                      THEN resp' = ApiFail(404, NotFoundMessage(kind, vid.id))
                      ELSE resp' = ApiOk(200, Null,
                                         <<Noun(kind), " deleted successfully">>)
    /\ UNCHANGED <<backend, now, serial, faulty, aside>>

\* ------------------------------------------------------ Firestore store
\* A string made of the characters cs (a document id).
Chars(cs) == [t |-> "chars", v |-> cs]

\* The id Firestore assigns to the n-th document added to a collection.
AutoId(n) == Decimal(n)

\* collection.add(data) of the document with the fresh id
FsAdd(col, id, data) == (id :> data) @@ col

\* docRef.get(): the snapshot
FsGet(col, id) ==
    IF id \in DOMAIN col THEN [exists |-> TRUE, id |-> id, data |-> col[id]]
    ELSE [exists |-> FALSE, id |-> id, data |-> EmptyObject]

\* docRef.update(fields): the named fields are overwritten, the others kept
FsUpdate(col, id, fields) ==
    [col EXCEPT ![id] = [k \in (DOMAIN @) \cup (DOMAIN fields) |->
                            IF Has(fields, k) THEN fields[k] ELSE @[k]]]

\* docRef.delete()
FsDelete(col, id) == [i \in (DOMAIN col) \ {id} |-> col[i]]

\* query[.where('status', '==', status)].orderBy('createdAt', 'desc').get():
\* the possible snapshots
FsQuery(col, filtered, status) ==
    LET ks == {i \in DOMAIN col : ~filtered \/ Read(col[i], "status") = status}
    IN {[n \in DOMAIN s |-> FsGet(col, s[n])] : s \in DescOrders(col, ks)}

\* convertTimestamps(data): every Timestamp becomes its ISO string
convertTimestamps(data) ==
    [k \in DOMAIN data |-> IF data[k].t = "ts" THEN IsoString(data[k].ms) ELSE data[k]]

\* { id: doc.id, ...convertTimestamps(doc.data()) }
DocJson(doc) == convertTimestamps(doc.data) @@ ("id" :> Chars(doc.id))

\* Reply of the route validator (zod-openapi) to a query, parameter or body
\* that does not match the route's schema.
OpenApiInvalid == [code |-> 400, body |-> [success |-> FALSE, error |-> <<"ZodError">>]]

\* { success: false, error } of the Firestore handlers
FsFail(code, error) == [code |-> code, body |-> [success |-> FALSE, error |-> error]]

\* ------------------------------------------ Firestore schemas (openapi)
CreateBlogSchema(body) ==
    Parsed(TitleIssues(body, TRUE) \cup StatusIssues(body, FALSE) \cup PublishedAtIssues(body),
           DefaultStatus(Strip(body, BlogKeys)))

UpdateBlogSchema(body) ==
    Parsed(TitleIssues(body, FALSE) \cup StatusIssues(body, FALSE) \cup PublishedAtIssues(body),
           Strip(body, BlogKeys))

projectBaseSchema(body) ==
    Parsed(AnyTitleIssues(body) \cup StatusIssues(body, TRUE)
                                \cup NullablePublishedAtIssues(body)
                                \cup IsGroupIssues(body, TRUE),
           Strip(body, ProjectKeys))

UpdateProjectSchema(body) ==
    Parsed(TitleIssues(body, FALSE) \cup StatusIssues(body, FALSE) \cup PublishedAtIssues(body)
                                   \cup IsGroupIssues(body, FALSE),
           Strip(body, ProjectKeys))

\* IdParamSchema: id is z.string().min(1)
IdParamSchema(param) == Len(param) >= 1

\* c.req.valid('json') for a route whose body schema parses body to parsed
ValidJson(parsed, body) ==
    IF body = Malformed THEN [ok |-> FALSE, data |-> EmptyObject]
    ELSE [ok |-> parsed.ok, data |-> parsed.data]

\* ------------------------------------- Firestore routes: routes/blogs.ts
\* newBlog of the POST handler, built at instant t
NewBlog(blogData, t) ==
    With(With(With(blogData, "createdAt", Timestamp(t)), "updatedAt", Timestamp(t)),
         "publishedAt",
         IF Truthy(Read(blogData, "publishedAt"))
         THEN Timestamp(blogData.publishedAt.ms) ELSE Null)

\* finalUpdateData of the PUT handler, built at instant t
FinalUpdateData(updateData, t) ==
    LET base == With(updateData, "updatedAt", Timestamp(t))
    IN IF Truthy(Read(updateData, "publishedAt"))
       THEN With(base, "publishedAt", Timestamp(updateData.publishedAt.ms))
       ELSE IF Has(updateData, "publishedAt")
       THEN With(base, "publishedAt", Null)
       ELSE base

\* GET /api/blogs
FsBlogsList ==
    /\ backend = "firestore"
    /\ \E q \in StatusQueries, f \in FaultsUpTo(1) :
        /\ req' = Request("list", "blogs", NoParam, q, EmptyObject)
        /\ IF ~statusQuerySchema(q)
           THEN resp' = OpenApiInvalid /\ calls' = <<>> /\ thrown' = NoFault
           ELSE IF f.at = 1
           THEN /\ resp' = FsFail(500, <<"Failed to fetch blogs.">>)
                /\ calls' = <<"query">>
                /\ thrown' = f
           ELSE /\ \E snapshot \in FsQuery(db.blogs, Truthy(QueryStatus(q)), QueryStatus(q)) :
                     resp' = ApiOk(200, Array([n \in DOMAIN snapshot |-> DocJson(snapshot[n])]),
                                   <<"Retrieved ">> \o Decimal(Len(snapshot)) \o <<" blogs">>)
                /\ calls' = <<"query">>
                /\ thrown' = NoFault
    /\ UNCHANGED <<backend, now, db, serial, faulty, aside>>

\* GET /api/blogs/{id}
FsBlogsGet ==
    /\ backend = "firestore"
    /\ \E param \in IdParams, f \in FaultsUpTo(1) :
        LET doc == FsGet(db.blogs, param)
        IN /\ req' = Request("get", "blogs", param, "-", EmptyObject)
           /\ IF ~IdParamSchema(param)
              THEN resp' = OpenApiInvalid /\ calls' = <<>> /\ thrown' = NoFault
              ELSE IF f.at = 1
              THEN /\ resp' = FsFail(500, <<"Failed to fetch blog.">>)
                   /\ calls' = <<"get">>
                   /\ thrown' = f
              ELSE /\ IF ~doc.exists
                      THEN resp' = FsFail(404, <<"Blog with ID ">> \o param \o <<" not found">>)
                      ELSE resp' = [code |-> 200,
                                    body |-> [success |-> TRUE, data |-> DocJson(doc)]]
                   /\ calls' = <<"get">>
                   /\ thrown' = NoFault
    /\ UNCHANGED <<backend, now, db, serial, faulty, aside>>

\* POST /api/blogs
FsBlogsPost ==
    /\ backend = "firestore"
    /\ \E body \in CreateBodies, t \in Instants, f \in FaultsUpTo(1) :
        LET v == ValidJson(CreateBlogSchema(body), body)
            id == AutoId(serial.blogs + 1)
        IN /\ req' = Request("create", "blogs", NoParam, "-", body)
           /\ IF ~v.ok
              THEN /\ resp' = OpenApiInvalid
                   /\ calls' = <<>>
                   /\ thrown' = NoFault
                   /\ UNCHANGED <<now, db, serial>>
              ELSE IF f.at = 1
              THEN /\ resp' = FsFail(500, <<"Failed to create blog.">>)
                   /\ calls' = <<"add">>
                   /\ thrown' = f
                   /\ UNCHANGED <<now, db, serial>>
              ELSE /\ Rows < MaxRows
                   /\ db' = [db EXCEPT !.blogs = FsAdd(@, id, NewBlog(v.data, t))]
                   /\ serial' = [serial EXCEPT !.blogs = @ + 1]
                   /\ now' = t
                   /\ resp' = ApiOk(201, [id |-> Chars(id)], <<"Blog created successfully">>)
                   /\ calls' = <<"add">>
                   /\ thrown' = NoFault
    /\ UNCHANGED <<backend, faulty, aside>>

\* PUT /api/blogs/{id}
FsBlogsPut ==
    /\ backend = "firestore"
    /\ \E param \in IdParams, body \in UpdateBodies, t \in Instants, f \in FaultsUpTo(3) :
        LET v == ValidJson(UpdateBlogSchema(body), body)
            updated == FsUpdate(db.blogs, param, FinalUpdateData(v.data, t))
        IN /\ req' = Request("update", "blogs", param, "-", body)
           /\ IF ~IdParamSchema(param) \/ ~v.ok
              THEN /\ resp' = OpenApiInvalid
                   /\ calls' = <<>>
                   /\ thrown' = NoFault
                   /\ UNCHANGED <<now, db>>
              ELSE IF f.at = 1
              THEN /\ resp' = FsFail(500, <<"Failed to update blog.">>)
                   /\ calls' = <<"get">>
                   /\ thrown' = f
                   /\ UNCHANGED <<now, db>>
              ELSE IF ~FsGet(db.blogs, param).exists
              THEN /\ resp' = FsFail(404, <<"Blog with ID ">> \o param \o <<" not found">>)
                   /\ calls' = <<"get">>
                   /\ thrown' = NoFault
                   /\ UNCHANGED <<now, db>>
              ELSE IF f.at = 2
              THEN /\ resp' = FsFail(500, <<"Failed to update blog.">>)
                   /\ calls' = <<"get", "update">>
                   /\ thrown' = f
                   /\ UNCHANGED <<now, db>>
              ELSE /\ db' = [db EXCEPT !.blogs = updated]
                   /\ now' = t
                   /\ calls' = <<"get", "update", "get">>
                   /\ IF f.at = 3
                      THEN /\ resp' = FsFail(500, <<"Failed to update blog.">>)
                           /\ thrown' = f
                      ELSE /\ resp' = ApiOk(200, DocJson(FsGet(updated, param)),
                                            <<"Blog updated successfully">>)
                           /\ thrown' = NoFault
    /\ UNCHANGED <<backend, serial, faulty, aside>>

\* DELETE /api/blogs/{id}
FsBlogsDelete ==
    /\ backend = "firestore"
    /\ \E param \in IdParams, f \in FaultsUpTo(2) :
        /\ req' = Request("delete", "blogs", param, "-", EmptyObject)
        /\ IF ~IdParamSchema(param)
           THEN /\ resp' = OpenApiInvalid
                /\ calls' = <<>>
                /\ thrown' = NoFault
                /\ UNCHANGED db
           ELSE IF f.at = 1
           THEN /\ resp' = FsFail(500, <<"Failed to delete blog.">>)
                /\ calls' = <<"get">>
                /\ thrown' = f
                /\ UNCHANGED db
           ELSE IF ~FsGet(db.blogs, param).exists
           THEN /\ resp' = FsFail(404, <<"Blog with ID ">> \o param \o <<" not found">>)
                /\ calls' = <<"get">>
                /\ thrown' = NoFault
                /\ UNCHANGED db
           ELSE IF f.at = 2
           THEN /\ resp' = FsFail(500, <<"Failed to delete blog.">>)
                /\ calls' = <<"get", "delete">>
                /\ thrown' = f
                /\ UNCHANGED db
           ELSE /\ db' = [db EXCEPT !.blogs = FsDelete(@, param)]
                /\ resp' = ApiOk(200, Null, <<"Blog deleted successfully">>)
                /\ calls' = <<"get", "delete">>
                /\ thrown' = NoFault
    /\ UNCHANGED <<backend, now, serial, faulty, aside>>

\* ---------------------------------- Firestore routes: routes/projects.ts
\* newProject of the POST handler, built at instant t
NewProject(validatedData, t) ==
    With(With(With(validatedData, "createdAt", Timestamp(t)), "updatedAt", Timestamp(t)),
         "publishedAt",
         IF Truthy(Read(validatedData, "publishedAt"))
         THEN Timestamp(validatedData.publishedAt.ms) ELSE Null)

\* updatePayload of the PUT handler, built at instant t
UpdatePayload(validatedData, t) ==
    LET base == With(validatedData, "updatedAt", Timestamp(t))
    IN IF Has(validatedData, "publishedAt")
       THEN With(base, "publishedAt",
                 IF Truthy(validatedData.publishedAt)
                 THEN Timestamp(validatedData.publishedAt.ms) ELSE Null)
       ELSE base

\* The framework's own reply when no error handler is registered
onError_Unregistered == [code |-> 500, body |-> [text |-> <<"Internal Server Error">>]]

\* app.onError: the reply to an exception no handler caught
onError == [code |-> 500,
            body |-> [success |-> FALSE, error |-> <<"Terjadi eror internal pada server">>]]

\* GET /api/projects (no try / catch: an exception reaches app.onError)
FsProjectsList ==
    /\ backend = "firestore"
    /\ \E q \in StatusQueries, f \in FaultsUpTo(1) :
        /\ req' = Request("list", "projects", NoParam, q, EmptyObject)
        /\ IF ~statusQuerySchema(q)
           THEN resp' = OpenApiInvalid /\ calls' = <<>> /\ thrown' = NoFault
           ELSE IF f.at = 1
           THEN /\ resp' = onError
                /\ calls' = <<"query">>
                /\ thrown' = f
           ELSE /\ \E snapshot \in FsQuery(db.projects, Truthy(QueryStatus(q)), QueryStatus(q)) :
                     resp' = ApiOk(200, Array([n \in DOMAIN snapshot |-> DocJson(snapshot[n])]),
                                   <<"Retrieved ">> \o Decimal(Len(snapshot)) \o <<" projects">>)
                /\ calls' = <<"query">>
                /\ thrown' = NoFault
    /\ UNCHANGED <<backend, now, db, serial, faulty, aside>>

\* GET /api/projects/{id}
FsProjectsGet ==
    /\ backend = "firestore"
    /\ \E param \in IdParams, f \in FaultsUpTo(1) :
        LET doc == FsGet(db.projects, param)
        IN /\ req' = Request("get", "projects", param, "-", EmptyObject)
           /\ IF ~IdParamSchema(param)
              THEN resp' = OpenApiInvalid /\ calls' = <<>> /\ thrown' = NoFault
              ELSE IF f.at = 1
              THEN /\ resp' = FsFail(500, <<"Gagal mengambil data proyek.">>)
                   /\ calls' = <<"get">>
                   /\ thrown' = f
              ELSE /\ IF ~doc.exists
                      THEN resp' = FsFail(404, <<"Proyek dengan ID ">> \o param
                                               \o <<" tidak ditemukan">>)
                      ELSE resp' = [code |-> 200,
                                    body |-> [success |-> TRUE, data |-> DocJson(doc)]]
                   /\ calls' = <<"get">>
                   /\ thrown' = NoFault
    /\ UNCHANGED <<backend, now, db, serial, faulty, aside>>

\* POST /api/projects (no try / catch: an exception reaches app.onError)
FsProjectsPost ==
    /\ backend = "firestore"
    /\ \E body \in CreateBodies, t \in Instants, f \in FaultsUpTo(2) :
        LET v == ValidJson(projectBaseSchema(body), body)
            id == AutoId(serial.projects + 1)
            added == FsAdd(db.projects, id, NewProject(v.data, t))
        IN /\ req' = Request("create", "projects", NoParam, "-", body)
           /\ IF ~v.ok
              THEN /\ resp' = OpenApiInvalid
                   /\ calls' = <<>>
                   /\ thrown' = NoFault
                   /\ UNCHANGED <<now, db, serial>>
              ELSE IF f.at = 1
              THEN /\ resp' = onError
                   /\ calls' = <<"add">>
                   /\ thrown' = f
                   /\ UNCHANGED <<now, db, serial>>
              ELSE /\ Rows < MaxRows
                   /\ db' = [db EXCEPT !.projects = added]
                   /\ serial' = [serial EXCEPT !.projects = @ + 1]
                   /\ now' = t
                   /\ calls' = <<"add", "get">>
                   /\ IF f.at = 2
                      THEN /\ resp' = onError
                           /\ thrown' = f
                      ELSE /\ resp' = ApiOk(201, DocJson(FsGet(added, id)),
                                            <<"Project created successfully">>)
                           /\ thrown' = NoFault
    /\ UNCHANGED <<backend, faulty, aside>>

\* PUT /api/projects/{id}
FsProjectsPut ==
    /\ backend = "firestore"
    /\ \E param \in IdParams, body \in UpdateBodies, t \in Instants, f \in FaultsUpTo(3) :
        LET v == ValidJson(UpdateProjectSchema(body), body)
            updated == FsUpdate(db.projects, param, UpdatePayload(v.data, t))
        IN /\ req' = Request("update", "projects", param, "-", body)
           /\ IF ~IdParamSchema(param) \/ ~v.ok
              THEN /\ resp' = OpenApiInvalid
                   /\ calls' = <<>>
                   /\ thrown' = NoFault
                   /\ UNCHANGED <<now, db>>
              ELSE IF f.at = 1
              THEN /\ resp' = FsFail(500, <<"Gagal memperbarui proyek.">>)
                   /\ calls' = <<"get">>
                   /\ thrown' = f
                   /\ UNCHANGED <<now, db>>
              ELSE IF ~FsGet(db.projects, param).exists
              THEN /\ resp' = FsFail(404, <<"Proyek dengan ID ">> \o param
                                          \o <<" tidak ditemukan">>)
                   /\ calls' = <<"get">>
                   /\ thrown' = NoFault
                   /\ UNCHANGED <<now, db>>
              ELSE IF f.at = 2
              THEN /\ resp' = FsFail(500, <<"Gagal memperbarui proyek.">>)
                   /\ calls' = <<"get", "update">>
                   /\ thrown' = f
                   /\ UNCHANGED <<now, db>>
              ELSE /\ db' = [db EXCEPT !.projects = updated]
                   /\ now' = t
                   /\ calls' = <<"get", "update", "get">>
                   /\ IF f.at = 3
                      THEN /\ resp' = FsFail(500, <<"Gagal memperbarui proyek.">>)
                           /\ thrown' = f
                      ELSE /\ resp' = ApiOk(200, DocJson(FsGet(updated, param)),
                                            <<"Proyek berhasil diperbarui">>)
                           /\ thrown' = NoFault
    /\ UNCHANGED <<backend, serial, faulty, aside>>

\* DELETE /api/projects/{id}
FsProjectsDelete ==
    /\ backend = "firestore"
    /\ \E param \in IdParams, f \in FaultsUpTo(2) :
        /\ req' = Request("delete", "projects", param, "-", EmptyObject)
        /\ IF ~IdParamSchema(param)
           THEN /\ resp' = OpenApiInvalid
                /\ calls' = <<>>
                /\ thrown' = NoFault
                /\ UNCHANGED db
           ELSE IF f.at = 1
           THEN /\ resp' = FsFail(500, <<"Gagal menghapus proyek.">>)
                /\ calls' = <<"get">>
                /\ thrown' = f
                /\ UNCHANGED db
           ELSE IF ~FsGet(db.projects, param).exists
           THEN /\ resp' = FsFail(404, <<"Proyek dengan ID ">> \o param
                                       \o <<" tidak ditemukan">>)
                /\ calls' = <<"get">>
                /\ thrown' = NoFault
                /\ UNCHANGED db
           ELSE IF f.at = 2
           THEN /\ resp' = FsFail(500, <<"Gagal menghapus proyek.">>)
                /\ calls' = <<"get", "delete">>
                /\ thrown' = f
                /\ UNCHANGED db
           ELSE /\ db' = [db EXCEPT !.projects = FsDelete(@, param)]
                /\ resp' = ApiOk(200, Null, <<"Proyek berhasil dihapus">>)
                /\ calls' = <<"get", "delete">>
                /\ thrown' = NoFault
    /\ UNCHANGED <<backend, now, serial, faulty, aside>>

\* ------------------------------------------------------- image upload
\* Most files the object store / uploads directory holds in a run.
MaxUploads == 2

\* 5 * 1024 * 1024 bytes
MaxFileSize == 5 * 1024 * 1024

allowedTypes == {"image/jpeg", "image/jpg", "image/png", "image/webp"}

\* file.type of the uploaded files
FileTypes == allowedTypes \cup {"image/gif", "application/pdf"}

\* file.size of the uploaded files: around the limit, and a 10 MB file
FileSizes == {1, MaxFileSize - 1, MaxFileSize, MaxFileSize + 1, 10 * 1000 * 1000}

\* body['image'] of a form without the image field
NoFile == [none |-> TRUE]

Files == {[type |-> ty, size |-> sz] : ty \in FileTypes, sz \in FileSizes}

\* `image-${uniqueSuffix}.${ext}` of the n-th file stored
Filename(n) == <<"image-">> \o Decimal(n)

\* The middleware called next(): the route's handler answers, with
\* c.get('uploadedFile') = uploadedFile.
PassedOn(uploadedFile) == [code |-> 0, body |-> [uploadedFile |-> uploadedFile]]

\* file.name of the uploaded files, split at its dots
FileNames == {<<"photo", "png">>, <<"photo", "JPG">>, <<"anim", "gif">>}

\* `image-${uniqueSuffix}.${file.name.split('.').pop()}` with Date.now() = t
\* and Math.round(Math.random() * 1E9) = r
GcsFilename(t, r, name) ==
    <<"image-">> \o Decimal(t) \o <<"-">> \o Decimal(r) \o <<".", name[Len(name)]>>

\* POST /api/upload of the Google Cloud Storage app
UploadGcs ==
    /\ backend = "firestore"
    /\ \E file \in Files \cup {NoFile} :
        IF file = NoFile
        THEN /\ req' = Request("upload", "uploads", NoParam, "-", file)
             /\ resp' = FsFail(400, <<"Tidak ada file gambar yang diberikan">>)
             /\ calls' = <<>>
             /\ thrown' = NoFault
             /\ UNCHANGED <<uploads, now>>
        ELSE \E name \in FileNames :
             /\ req' = Request("upload", "uploads", NoParam, "-",
                               [type |-> file.type, size |-> file.size, name |-> name])
             /\ IF file.size > MaxFileSize
                THEN /\ resp' = FsFail(400, <<"Ukuran file harus kurang dari ", "5MB">>)
                     /\ calls' = <<>>
                     /\ thrown' = NoFault
                     /\ UNCHANGED <<uploads, now>>
                \* Date.now() is the millisecond of the previous reading or a
                \* later one; the random number is one of two values.
                ELSE \E t \in {i \in {now, now + 1} : i <= MaxTime}, r \in {0, 1},
                        f \in FaultsUpTo(1) :
                     LET filename == GcsFilename(t, r, name)
                     IN /\ now' = t
                        /\ calls' = <<"put">>
                        /\ thrown' = f
                        /\ IF f.at = 1
                           THEN /\ resp' = FsFail(500, <<"Gagal mengunggah gambar ke GCS">>)
                                /\ UNCHANGED uploads
                           ELSE /\ Cardinality(uploads \cup {filename}) <= MaxUploads
                                /\ uploads' = uploads \cup {filename}
                                /\ resp' = ApiOk(201,
                                                 [filename |-> Chars(filename),
                                                  url |-> Chars(<<"https://storage.googleapis.com/",
                                                                  "janda", "/">> \o filename)],
                                                 <<"Gambar berhasil diunggah ke Google Cloud Storage">>)
    /\ UNCHANGED <<backend, db, serial, faulty, inflight, writes>>

\* /^[a-zA-Z0-9_.-]+\.(jpg|jpeg|png|webp)$/i.test(filename): the i flag
\* compares the extension in lower case, and the pieces "../" and "janda/"
\* hold a character outside [a-zA-Z0-9_.-].
ValidFilename(filename) ==
    LET ext == filename[Len(filename)]
        lower == IF ext = "JPG" THEN "jpg" ELSE IF ext = "PNG" THEN "png" ELSE ext
    IN /\ Len(filename) >= 3
       /\ filename[Len(filename) - 1] = "."
       /\ lower \in {"jpg", "jpeg", "png", "webp"}
       /\ \A i \in 1..(Len(filename) - 2) : filename[i] \notin {"../", "janda/"}

\* DELETE /api/upload/{filename}, the object looked up as `${folder}${filename}`
DeleteUploadAt(folder) ==
    /\ backend = "firestore"
    \* :filename is a stored object's name, a name nothing is stored under,
    \* or a path out of the bucket.
    /\ \E filename \in uploads \cup {<<"image-", "9", "-", "9", ".", "png">>,
                                     <<"../", "secret", ".", "png">>},
          f \in FaultsUpTo(2) :
        LET path == folder \o filename
        IN /\ req' = Request("remove", "uploads", filename, "-", Null)
           /\ IF ~ValidFilename(filename)
              THEN /\ resp' = FsFail(400, <<"Nama file tidak valid">>)
                   /\ calls' = <<>>
                   /\ thrown' = NoFault
                   /\ UNCHANGED uploads
              ELSE IF f.at = 1
              THEN /\ resp' = FsFail(500, <<"Gagal menghapus gambar">>)
                   /\ calls' = <<"get">>
                   /\ thrown' = f
                   /\ UNCHANGED uploads
              ELSE IF path \notin uploads
              THEN /\ resp' = FsFail(404, <<"File ">> \o filename \o <<" tidak ditemukan">>)
                   /\ calls' = <<"get">>
                   /\ thrown' = NoFault
                   /\ UNCHANGED uploads
              ELSE IF f.at = 2
              THEN /\ resp' = FsFail(500, <<"Gagal menghapus gambar">>)
                   /\ calls' = <<"get", "delete">>
                   /\ thrown' = f
                   /\ UNCHANGED uploads
              ELSE /\ uploads' = uploads \ {path}
                   /\ resp' = [code |-> 200,
                               body |-> [success |-> TRUE,
                                         message |-> <<"Gambar ">> \o filename
                                             \o <<" berhasil dihapus dari Google Cloud Storage">>]]
                   /\ calls' = <<"get", "delete">>
                   /\ thrown' = NoFault
    /\ UNCHANGED <<backend, now, db, serial, faulty, inflight, writes>>

\* The delete handler beside the upload handler: bucket.file(filename)
DeleteUpload == DeleteUploadAt(<<>>)

\* The delete handler of the list/get/delete app: bucket.file(`janda/${filename}`)
DeleteUploadJanda == DeleteUploadAt(<<"janda/">>)

\* The file info of the local-disk handlers
UploadedFile(filename, file) ==
    [filename |-> Chars(filename), mimetype |-> Str(file.type), size |-> Num(file.size),
     url |-> Chars(<<"http://", "localhost:5000", "/uploads/">> \o filename)]

\* POST /api/upload of the local-disk app (index.ts)
UploadDisk ==
    /\ backend = "relational"
    /\ \E file \in Files \cup {NoFile}, f \in FaultsUpTo(1) :
        LET filename == Filename(Cardinality(uploads) + 1)
        IN /\ req' = Request("upload", "uploads", NoParam, "-", file)
           /\ IF file = NoFile
              THEN /\ resp' = ApiFail(400, <<"No image file provided">>)
                   /\ calls' = <<>>
                   /\ thrown' = NoFault
                   /\ UNCHANGED uploads
              ELSE IF file.type \notin allowedTypes
              THEN /\ resp' = ApiFail(400, <<"Only image files (JPEG, PNG, WebP) are allowed">>)
                   /\ calls' = <<>>
                   /\ thrown' = NoFault
                   /\ UNCHANGED uploads
              ELSE IF file.size > MaxFileSize
              THEN /\ resp' = ApiFail(400, <<"File size must be less than ", "5MB">>)
                   /\ calls' = <<>>
                   /\ thrown' = NoFault
                   /\ UNCHANGED uploads
              ELSE IF f.at = 1
              THEN /\ resp' = ApiFail(500, <<"Failed to upload image">>)
                   /\ calls' = <<"put">>
                   /\ thrown' = f
                   /\ UNCHANGED uploads
              ELSE /\ Cardinality(uploads) < MaxUploads
                   /\ uploads' = uploads \cup {filename}
                   /\ resp' = ApiOk(201, UploadedFile(filename, file),
                                    <<"Image uploaded successfully">>)
                   /\ calls' = <<"put">>
                   /\ thrown' = NoFault
    /\ UNCHANGED <<backend, now, db, serial, faulty, inflight, writes>>

\* The uploadImage middleware
uploadImage ==
    /\ backend = "relational"
    /\ \E file \in Files \cup {NoFile}, f \in FaultsUpTo(1) :
        LET filename == Filename(Cardinality(uploads) + 1)
        IN /\ req' = Request("upload", "uploads", NoParam, "-", file)
           /\ IF file = NoFile
              THEN /\ resp' = PassedOn(Undefined)
                   /\ calls' = <<>>
                   /\ thrown' = NoFault
                   /\ UNCHANGED uploads
              ELSE IF file.type \notin allowedTypes
              THEN /\ resp' = FsFail(400, <<"Only image files (JPEG, PNG, WebP) are allowed">>)
                   /\ calls' = <<>>
                   /\ thrown' = NoFault
                   /\ UNCHANGED uploads
              ELSE IF file.size > MaxFileSize
              THEN /\ resp' = FsFail(400, <<"File size must be less than ", "5MB">>)
                   /\ calls' = <<>>
                   /\ thrown' = NoFault
                   /\ UNCHANGED uploads
              ELSE IF f.at = 1
              THEN /\ resp' = FsFail(400, <<"File upload error: ", f.message>>)
                   /\ calls' = <<"put">>
                   /\ thrown' = f
                   /\ UNCHANGED uploads
              ELSE /\ Cardinality(uploads) < MaxUploads
                   /\ uploads' = uploads \cup {filename}
                   /\ resp' = PassedOn(UploadedFile(filename, file))
                   /\ calls' = <<"put">>
                   /\ thrown' = NoFault
    /\ UNCHANGED <<backend, now, db, serial, faulty, inflight, writes>>

\* ------------------------------------------------------------ the system
NoRequest == Request("none", "blogs", NoParam, "-", EmptyObject)

NoResponse == [code |-> 0, body |-> EmptyObject]

Init ==
    /\ backend \in {"relational", "firestore"}
    /\ now = 0
    /\ db = [blogs |-> EmptyTable, projects |-> EmptyTable]
    /\ serial = [blogs |-> 0, projects |-> 0]
    /\ req = NoRequest
    /\ resp = NoResponse
    /\ calls = <<>>
    /\ faulty = FALSE
    /\ thrown = NoFault
    /\ uploads = {}
    /\ inflight = <<>>
    /\ writes = <<>>

Next ==
    \/ RelList
    \/ RelGet
    \/ RelPost
    \/ RelPut
    \/ RelDelete
    \/ FsBlogsList
    \/ FsBlogsGet
    \/ FsBlogsPost
    \/ FsBlogsPut
    \/ FsBlogsDelete
    \/ FsProjectsList
    \/ FsProjectsGet
    \/ FsProjectsPost
    \/ FsProjectsPut
    \/ FsProjectsDelete

Spec == Init /\ [][Next]_vars

\* The same service in front of a store whose calls can throw.
FaultInit ==
    /\ backend \in {"relational", "firestore"}
    /\ now = 0
    /\ db = [blogs |-> EmptyTable, projects |-> EmptyTable]
    /\ serial = [blogs |-> 0, projects |-> 0]
    /\ req = NoRequest
    /\ resp = NoResponse
    /\ calls = <<>>
    /\ faulty = TRUE
    /\ thrown = NoFault
    /\ uploads = {}
    /\ inflight = <<>>
    /\ writes = <<>>

FaultSpec == FaultInit /\ [][Next]_vars

\* The upload endpoints alone, the file write being able to throw.
UploadNext ==
    \/ UploadGcs
    \/ UploadDisk
    \/ uploadImage
    \/ DeleteUpload
    \/ DeleteUploadJanda

UploadSpec == FaultInit /\ [][UploadNext]_vars

\* ---------------------------------------------------------------------
\* Two update requests for the same entity in flight at once. Each await
\* of a handler is a point where the other request can run.

Clients == {1, 2}

\* The id both requests name: the first entity of its kind.
SharedParam == <<"1">>

\* The entity both requests name, as created by a POST at instant 0.
SeedBody == With(MkBody("A", "published", IsoString(0)), "isGroup", Bool(FALSE))

SeedRow(kind) ==
    StorageCreate(kind, EmptyTable, 1, PostData(CreateSchema(kind, SeedBody).data), 0).result

SeedDoc(kind) ==
    IF kind = "blogs" THEN NewBlog(CreateBlogSchema(SeedBody).data, 0)
    ELSE NewProject(projectBaseSchema(SeedBody).data, 0)

\* An applied storage write: who wrote, and the fields handed to the store.
Write(client, fields) == [client |-> client, fields |-> fields]

\* A PUT whose handler has not run yet / has answered.
Received(kind, body) ==
    [op |-> "update", pc |-> "received", kind |-> kind, body |-> body,
     fields |-> EmptyObject, resp |-> NoResponse]

Answered(r, answer) == [r EXCEPT !.pc = "done", !.resp = answer]

\* One stored entity, and for each client a request drawn from
\* requests[kind], received and not yet handled.
Started(requests) ==
    /\ backend \in {"relational", "firestore"}
    /\ faulty = FALSE
    /\ now = 0
    /\ \E kind \in Kinds :
        /\ db = [k \in Kinds |->
                   IF k # kind THEN EmptyTable
                   ELSE IF backend = "relational" THEN (1 :> SeedRow(kind))
                   ELSE FsAdd(EmptyTable, AutoId(1), SeedDoc(kind))]
        /\ serial = [k \in Kinds |-> IF k = kind THEN 1 ELSE 0]
        /\ writes = << Write(0, IF backend = "relational" THEN SeedRow(kind) ELSE SeedDoc(kind)) >>
        /\ inflight \in [Clients -> requests[kind]]
    /\ req = NoRequest
    /\ resp = NoResponse
    /\ calls = <<>>
    /\ thrown = NoFault
    /\ uploads = {}

ConcInit == Started([kind \in Kinds |-> {Received(kind, body) : body \in UpdateBodies}])

\* PUT /blogs/:id, PUT /projects/:id up to the awaited statement:
\* validateIdParam, validateBody, the handler and updateBlog's updateData.
RelPutBegin(c) ==
    /\ backend = "relational"
    /\ inflight[c].pc = "received"
    /\ LET r == inflight[c]
           vid == validateIdParam(SharedParam)
           v == validateBody(UpdateSchema(r.kind, r.body), r.body)
       IN IF ~vid.ok
          THEN /\ inflight' = [inflight EXCEPT ![c] = Answered(r,
                      [code |-> 400,
                       body |-> [error |-> <<"Invalid ID parameter. Must be a positive integer.">>]])]
               /\ UNCHANGED now
          ELSE IF ~v.ok
          THEN /\ inflight' = [inflight EXCEPT ![c] = Answered(r, v.resp)]
               /\ UNCHANGED now
          ELSE \E t \in Instants :
                  /\ inflight' = [inflight EXCEPT ![c] =
                        [r EXCEPT !.pc = "update", !.fields = UpdateData(PutData(v.data), t)]]
                  /\ now' = t
    /\ UNCHANGED <<backend, db, serial, req, resp, calls, faulty, thrown, uploads, writes>>

\* The UPDATE ... RETURNING statement is applied, and the handler answers.
RelPutWrite(c) ==
    /\ backend = "relational"
    /\ inflight[c].pc = "update"
    /\ LET r == inflight[c]
           id == validateIdParam(SharedParam).id
           u == SqlUpdate(db[r.kind], id, r.fields)
       IN /\ db' = [db EXCEPT ![r.kind] = u.tbl]
          /\ IF u.rows = <<>>
             THEN /\ inflight' = [inflight EXCEPT ![c] =
                        Answered(r, ApiFail(404, NotFoundMessage(r.kind, id)))]
                  /\ UNCHANGED writes
             ELSE /\ inflight' = [inflight EXCEPT ![c] =
                        Answered(r, ApiOk(200, JsonObject(u.rows[1]),
                                          <<Noun(r.kind), " updated successfully">>))]
                  /\ writes' = Append(writes, Write(c, r.fields))
    /\ UNCHANGED <<backend, now, serial, req, resp, calls, faulty, thrown, uploads>>

\* The 404 of the Firestore PUT handlers.
FsNotFound(kind, param) ==
    IF kind = "blogs"
    THEN FsFail(404, <<"Blog with ID ">> \o param \o <<" not found">>)
    ELSE FsFail(404, <<"Proyek dengan ID ">> \o param \o <<" tidak ditemukan">>)

\* The 500 of the Firestore PUT handlers' catch.
FsPutFailed(kind) ==
    IF kind = "blogs" THEN FsFail(500, <<"Failed to update blog.">>)
    ELSE FsFail(500, <<"Gagal memperbarui proyek.">>)

\* PUT /api/blogs/{id}, PUT /api/projects/{id}: request validation and the
\* first docRef.get().
FsPutCheck(c) ==
    /\ backend = "firestore"
    /\ inflight[c].pc = "received"
    /\ LET r == inflight[c]
           v == ValidJson(IF r.kind = "blogs" THEN UpdateBlogSchema(r.body)
                          ELSE UpdateProjectSchema(r.body), r.body)
       IN inflight' = [inflight EXCEPT ![c] =
             IF ~IdParamSchema(SharedParam) \/ ~v.ok THEN Answered(r, OpenApiInvalid)
             ELSE IF ~FsGet(db[r.kind], SharedParam).exists
             THEN Answered(r, FsNotFound(r.kind, SharedParam))
             ELSE [r EXCEPT !.pc = "build", !.fields = v.data]]
    /\ UNCHANGED <<backend, now, db, serial, req, resp, calls, faulty, thrown, uploads, writes>>

\* finalUpdateData / updatePayload is built and docRef.update() is sent.
FsPutBuild(c) ==
    /\ backend = "firestore"
    /\ inflight[c].pc = "build"
    /\ \E t \in Instants :
        LET r == inflight[c]
        IN /\ inflight' = [inflight EXCEPT ![c] =
                 [r EXCEPT !.pc = "update",
                           !.fields = IF r.kind = "blogs" THEN FinalUpdateData(r.fields, t)
                                      ELSE UpdatePayload(r.fields, t)]]
           /\ now' = t
    /\ UNCHANGED <<backend, db, serial, req, resp, calls, faulty, thrown, uploads, writes>>

\* docRef.update() is applied; it throws when the document is gone.
FsPutUpdate(c) ==
    /\ backend = "firestore"
    /\ inflight[c].pc = "update"
    /\ LET r == inflight[c]
       IN IF SharedParam \in DOMAIN db[r.kind]
          THEN /\ db' = [db EXCEPT ![r.kind] = FsUpdate(@, SharedParam, r.fields)]
               /\ writes' = Append(writes, Write(c, r.fields))
               /\ inflight' = [inflight EXCEPT ![c] = [r EXCEPT !.pc = "read"]]
          ELSE /\ inflight' = [inflight EXCEPT ![c] = Answered(r, FsPutFailed(r.kind))]
               /\ UNCHANGED <<db, writes>>
    /\ UNCHANGED <<backend, now, serial, req, resp, calls, faulty, thrown, uploads>>

\* The second docRef.get() and the answer.
FsPutRead(c) ==
    /\ backend = "firestore"
    /\ inflight[c].pc = "read"
    /\ LET r == inflight[c]
       IN inflight' = [inflight EXCEPT ![c] =
             Answered(r, ApiOk(200, DocJson(FsGet(db[r.kind], SharedParam)),
                               IF r.kind = "blogs" THEN <<"Blog updated successfully">>
                               ELSE <<"Proyek berhasil diperbarui">>))]
    /\ UNCHANGED <<backend, now, db, serial, req, resp, calls, faulty, thrown, uploads, writes>>

ConcNext ==
    \E c \in Clients :
        \/ RelPutBegin(c)
        \/ RelPutWrite(c)
        \/ FsPutCheck(c)
        \/ FsPutBuild(c)
        \/ FsPutUpdate(c)
        \/ FsPutRead(c)

\* Every continuation of a handler is eventually run: the event loop
\* resumes a handler once its awaited call has been answered.
ConcSpec == ConcInit /\ [][ConcNext]_vars /\ WF_vars(ConcNext)

\* ---------------------------------------------------------------------
\* Updates and deletes of the same entity in flight at once.

\* A DELETE whose handler has not run yet.
Deleting(kind) ==
    [op |-> "delete", pc |-> "delete", kind |-> kind, body |-> EmptyObject,
     fields |-> EmptyObject, resp |-> NoResponse]

\* The PUT bodies of the racing requests: a title alone, and nothing.
RaceBodies == {MkBody("X", "-", Absent), EmptyObject}

RaceInit ==
    Started([kind \in Kinds |->
                {Received(kind, body) : body \in RaceBodies} \cup {Deleting(kind)}])

\* DELETE /blogs/:id, DELETE /projects/:id: validateIdParam, the
\* DELETE ... RETURNING statement applied, and the answer.
RelDeleteRun(c) ==
    /\ backend = "relational"
    /\ inflight[c].pc = "delete"
    /\ LET r == inflight[c]
           vid == validateIdParam(SharedParam)
           d == StorageDelete(r.kind, db[r.kind], vid.id)
       IN IF ~vid.ok
          THEN /\ inflight' = [inflight EXCEPT ![c] = Answered(r,
                      [code |-> 400,
                       body |-> [error |-> <<"Invalid ID parameter. Must be a positive integer.">>]])]
               /\ UNCHANGED db
          ELSE /\ db' = [db EXCEPT ![r.kind] = d.tbl]
               /\ inflight' = [inflight EXCEPT ![c] = Answered(r,
                      IF d.result
                      THEN ApiOk(200, Null, <<Noun(r.kind), " deleted successfully">>)
                      ELSE ApiFail(404, NotFoundMessage(r.kind, vid.id)))]
    /\ UNCHANGED <<backend, now, serial, req, resp, calls, faulty, thrown, uploads, writes>>

\* DELETE /api/blogs/{id}, DELETE /api/projects/{id}: request validation
\* and docRef.get().
FsDeleteCheck(c) ==
    /\ backend = "firestore"
    /\ inflight[c].pc = "delete"
    /\ LET r == inflight[c]
       IN inflight' = [inflight EXCEPT ![c] =
             IF ~IdParamSchema(SharedParam) THEN Answered(r, OpenApiInvalid)
             ELSE IF ~FsGet(db[r.kind], SharedParam).exists
             THEN Answered(r, FsNotFound(r.kind, SharedParam))
             ELSE [r EXCEPT !.pc = "remove"]]
    /\ UNCHANGED <<backend, now, db, serial, req, resp, calls, faulty, thrown, uploads, writes>>

\* docRef.delete() is applied, whether the document is still there or not,
\* and the handler answers.
FsDeleteRemove(c) ==
    /\ backend = "firestore"
    /\ inflight[c].pc = "remove"
    /\ LET r == inflight[c]
       IN /\ db' = [db EXCEPT ![r.kind] = FsDelete(@, SharedParam)]
          /\ inflight' = [inflight EXCEPT ![c] =
                Answered(r, ApiOk(200, Null,
                                  IF r.kind = "blogs" THEN <<"Blog deleted successfully">>
                                  ELSE <<"Proyek berhasil dihapus">>))]
    /\ UNCHANGED <<backend, now, serial, req, resp, calls, faulty, thrown, uploads, writes>>

RaceNext ==
    \E c \in Clients :
        \/ RelPutBegin(c)
        \/ RelPutWrite(c)
        \/ RelDeleteRun(c)
        \/ FsPutCheck(c)
        \/ FsPutBuild(c)
        \/ FsPutUpdate(c)
        \/ FsPutRead(c)
        \/ FsDeleteCheck(c)
        \/ FsDeleteRemove(c)

RaceSpec == RaceInit /\ [][RaceNext]_vars /\ WF_vars(RaceNext)

\* ---------------------------------------------------------------------
\* The service handling requests one at a time, one entity already stored.
SeededInit ==
    /\ backend \in {"relational", "firestore"}
    /\ faulty = FALSE
    /\ now = 0
    /\ \E kind \in Kinds :
        /\ db = [k \in Kinds |->
                   IF k # kind THEN EmptyTable
                   ELSE IF backend = "relational" THEN (1 :> SeedRow(kind))
                   ELSE FsAdd(EmptyTable, AutoId(1), SeedDoc(kind))]
        /\ serial = [k \in Kinds |-> IF k = kind THEN 1 ELSE 0]
        /\ writes = << Write(0, IF backend = "relational" THEN SeedRow(kind) ELSE SeedDoc(kind)) >>
    /\ req = NoRequest
    /\ resp = NoResponse
    /\ calls = <<>>
    /\ thrown = NoFault
    /\ uploads = {}
    /\ inflight = <<>>

SeededSpec == SeededInit /\ [][Next]_vars

\* ================================================================ claims
\* In an action formula the step handles request req' at instant `now`
\* (the time the request is received) and answers resp'; db is the store
\* before the request and db' the store after it.

\* The key under which the entity that request r addresses is stored.
TargetKey(r) ==
    IF backend = "relational" THEN validateIdParam(r.param).id ELSE r.param

\* The key of the entity most recently created in kind, given the counters.
CreatedKey(ser, kind) ==
    IF backend = "relational" THEN ser[kind] ELSE AutoId(ser[kind])

\* The body of request r passes the create / update schema of its route.
ValidCreate(r) ==
    /\ r.body # Malformed
    /\ IF backend = "relational" THEN CreateSchema(r.kind, r.body).ok
       ELSE IF r.kind = "blogs" THEN CreateBlogSchema(r.body).ok
       ELSE projectBaseSchema(r.body).ok

ValidUpdate(r) ==
    /\ r.body # Malformed
    /\ IF backend = "relational" THEN UpdateSchema(r.kind, r.body).ok
       ELSE IF r.kind = "blogs" THEN UpdateBlogSchema(r.body).ok
       ELSE UpdateProjectSchema(r.body).ok

PublishedWithoutDate(body) ==
    /\ Read(body, "status") = Str("published")
    /\ ~Has(body, "publishedAt")

\* C1: relational POST of a valid payload with status = published and no
\* publishedAt creates an entity whose publishedAt, returned and stored, is
\* non-null and not earlier than the time the request was received.
C1_CreatePublishedStamps ==
    [][(/\ backend = "relational"
        /\ req'.op = "create"
        /\ ValidCreate(req')
        /\ PublishedWithoutDate(req'.body))
       => /\ resp'.code = 201
          /\ LET row == db'[req'.kind][CreatedKey(serial', req'.kind)]
             IN /\ row.publishedAt # Null
                /\ row.publishedAt.t = "date"
                /\ row.publishedAt.ms >= now
                /\ resp'.body.data.publishedAt = IsoString(row.publishedAt.ms)
                /\ resp'.body.data.id = row.id]_vars

C1_Witness ==
    /\ backend = "relational"
    /\ req.op = "create"
    /\ resp.code = 201
    /\ PublishedWithoutDate(req.body)
    /\ resp.body.data.publishedAt = IsoString(now)

\* C2: relational PUT that sets status = published, without publishedAt, on
\* an existing draft entity returns and stores a non-null publishedAt.
C2_PublishDraftStamps ==
    [][(/\ backend = "relational"
        /\ req'.op = "update"
        /\ validateIdParam(req'.param).ok
        /\ ValidUpdate(req')
        /\ PublishedWithoutDate(req'.body)
        /\ TargetKey(req') \in DOMAIN db[req'.kind]
        /\ db[req'.kind][TargetKey(req')].status = Str("draft"))
       => /\ resp'.code = 200
          /\ resp'.body.data.publishedAt \notin {Null, Undefined}
          /\ resp'.body.data.publishedAt.t = "iso"
          /\ TargetKey(req') \in DOMAIN db'[req'.kind]
          /\ db'[req'.kind][TargetKey(req')].publishedAt # Null
          /\ db'[req'.kind][TargetKey(req')].publishedAt.t = "date"
          /\ db'[req'.kind][TargetKey(req')].status = Str("published")]_vars

C2_Witness ==
    /\ backend = "relational"
    /\ req.op = "update"
    /\ resp.code = 200
    /\ PublishedWithoutDate(req.body)
    /\ resp.body.data.status = Str("published")
    /\ resp.body.data.publishedAt = IsoString(now)
    /\ resp.body.data.createdAt # IsoString(now)

\* C3: on the Firestore backend a successful create or update whose payload
\* sets status = published and carries no publishedAt leaves the stored
\* entity with a non-null publishedAt.
C3_FirestoreStamps ==
    (/\ backend = "firestore"
     /\ req.op \in {"create", "update"}
     /\ resp.code \in {200, 201}
     /\ PublishedWithoutDate(req.body))
    => LET key == IF req.op = "create" THEN CreatedKey(serial, req.kind)
                  ELSE TargetKey(req)
       IN /\ key \in DOMAIN db[req.kind]
          /\ db[req.kind][key].publishedAt # Null

\* The status and publishedAt of a create payload as the schema reads them.
DraftOrUnset(body) == Read(body, "status") \in {Undefined, Str("draft")}

\* C4 as stated: every successful create whose payload has status absent or
\* draft stores publishedAt = null.
C4_DraftCreateNullPublishedAt ==
    (/\ req.op = "create"
     /\ resp.code = 201
     /\ DraftOrUnset(req.body))
    => db[req.kind][CreatedKey(serial, req.kind)].publishedAt = Null

\* C4 amended: every valid create payload whose status is absent or draft and
\* whose publishedAt is absent or null is accepted, and the created entity has
\* publishedAt = null; a publishedAt the payload supplies is stored instead.
C4_DraftCreateKeepsPublishedAt ==
    [][(/\ req'.op = "create"
        /\ ValidCreate(req')
        /\ DraftOrUnset(req'.body))
       => /\ resp'.code = 201
          /\ LET stored == db'[req'.kind][CreatedKey(serial', req'.kind)].publishedAt
                 given == Read(req'.body, "publishedAt")
             IN IF given \in {Undefined, Null}
                THEN stored = Null
                ELSE stored \in {Date(given.ms), Timestamp(given.ms)}]_vars

C4_Witness ==
    /\ req.op = "create"
    /\ resp.code = 201
    /\ DraftOrUnset(req.body)
    /\ ~Has(req.body, "publishedAt")
    /\ db[req.kind][CreatedKey(serial, req.kind)].publishedAt = Null
    /\ db[req.kind][CreatedKey(serial, req.kind)].status = Str("draft")

\* C5: a relational PUT with status = published and no publishedAt on an
\* entity that is already published with a non-null publishedAt leaves the
\* stored publishedAt unchanged.
C5_RepublishKeepsPublishedAt ==
    [][(/\ backend = "relational"
        /\ req'.op = "update"
        /\ validateIdParam(req'.param).ok
        /\ ValidUpdate(req')
        /\ PublishedWithoutDate(req'.body)
        /\ TargetKey(req') \in DOMAIN db[req'.kind]
        /\ db[req'.kind][TargetKey(req')].status = Str("published")
        /\ db[req'.kind][TargetKey(req')].publishedAt # Null)
       => /\ TargetKey(req') \in DOMAIN db'[req'.kind]
          /\ db'[req'.kind][TargetKey(req')].publishedAt
               = db[req'.kind][TargetKey(req')].publishedAt]_vars

\* The parameter of request r passes the id validation of its route.
ValidParam(r) ==
    IF backend = "relational" THEN validateIdParam(r.param).ok ELSE IdParamSchema(r.param)

\* C6: a successful update of an existing entity by a valid payload that
\* supplies at most title leaves every field the payload does not name as it
\* was, except updatedAt, and sets the fields it names.
C6_PartialUpdateFrame ==
    [][(/\ req'.op = "update"
        /\ ValidParam(req')
        /\ ValidUpdate(req')
        /\ DOMAIN req'.body \subseteq {"title"}
        /\ TargetKey(req') \in DOMAIN db[req'.kind])
       => /\ resp'.code = 200
          /\ TargetKey(req') \in DOMAIN db'[req'.kind]
          /\ LET before == db[req'.kind][TargetKey(req')]
                 after == db'[req'.kind][TargetKey(req')]
             IN /\ DOMAIN after = DOMAIN before
                /\ \A f \in (DOMAIN before) \ ((DOMAIN req'.body) \cup {"updatedAt"}) :
                      after[f] = before[f]
                /\ \A f \in DOMAIN req'.body : after[f] = req'.body[f]]_vars

C6_Witness ==
    /\ req.op = "update"
    /\ resp.code = 200
    /\ DOMAIN req.body = {"title"}
    /\ LET row == db[req.kind][TargetKey(req)]
       IN /\ row.title = Str("X")
          /\ row.status = Str("published")
          /\ row.publishedAt # Null
          /\ row.updatedAt # row.createdAt

\* A stored value as a response shows it: instants as ISO strings.
Shown(v) == IF v.t \in {"date", "ts"} THEN IsoString(v.ms) ELSE v

\* The storage key that the id shown in a response entity denotes.
ShownKey(data) == data.id.v

\* C7: a get of the id a successful create has just returned answers 200 with
\* an entity equal, field by field, to the entity the create returned.
C7_CreateGetRoundTrip ==
    [][(/\ req.op = "create"
        /\ resp.code = 201
        /\ req'.op = "get"
        /\ req'.kind = req.kind
        /\ ValidParam(req')
        /\ TargetKey(req') = ShownKey(resp.body.data))
       => /\ resp'.code = 200
          /\ resp'.body.data = resp.body.data]_vars

\* C8: the data of a 201 create response is the complete created entity: the
\* assigned id, createdAt, updatedAt and every stored field.
C8_CreateReturnsEntity ==
    (req.op = "create" /\ resp.code = 201)
    => LET data == resp.body.data
           key == CreatedKey(serial, req.kind)
       IN /\ {"id", "createdAt", "updatedAt"} \subseteq DOMAIN data
          /\ ShownKey(data) = key
          /\ key \in DOMAIN db[req.kind]
          /\ \A f \in DOMAIN db[req.kind][key] :
                f \in DOMAIN data /\ data[f] = Shown(db[req.kind][key][f])

\* The stored entities of request r's kind that its status filter selects.
Selected(r) ==
    {k \in DOMAIN db[r.kind] : r.query = "-" \/ db[r.kind][k].status = Str(r.query)}

\* C9: a list with a valid status filter s answers 200 with exactly the
\* stored entities whose status is s, a list without filter with every stored
\* entity, each once and complete, ordered by createdAt descending; with
\* nothing to return the answer is a success with an empty list.
C9_ListFilterAndOrder ==
    (req.op = "list" /\ statusQuerySchema(req.query))
    => /\ resp.code = 200
       /\ resp.body.success = TRUE
       /\ resp.body.data.t = "array"
       /\ LET items == resp.body.data.items
          IN /\ Len(items) = Cardinality(Selected(req))
             /\ {ShownKey(items[n]) : n \in DOMAIN items} = Selected(req)
             /\ \A n \in DOMAIN items :
                  \A f \in DOMAIN db[req.kind][ShownKey(items[n])] :
                     /\ f \in DOMAIN items[n]
                     /\ items[n][f] = Shown(db[req.kind][ShownKey(items[n])][f])
             /\ \A i, j \in DOMAIN items :
                  i < j => items[i].createdAt.ms >= items[j].createdAt.ms

C9_Witness ==
    /\ req.op = "list"
    /\ req.query = "-"
    /\ resp.code = 200
    /\ Len(resp.body.data.items) = 2
    /\ resp.body.data.items[1].createdAt.ms > resp.body.data.items[2].createdAt.ms
    /\ resp.body.data.items[1].status # resp.body.data.items[2].status

\* msg, a sequence of text pieces, contains the pieces of sub in a row.
Contains(msg, sub) ==
    \E i \in 0..(Len(msg) - Len(sub)) : SubSeq(msg, i + 1, i + Len(sub)) = sub

\* The id that request r asks for, as text.
RequestedId(r) ==
    IF backend = "relational" THEN Decimal(validateIdParam(r.param).id) ELSE r.param

\* C10: a get leaves the store as it is, and a get of a valid id that is not
\* in the store answers 404 with success = false and an error message that
\* contains the requested id.
C10_GetMissing ==
    [][req'.op = "get"
       => /\ db' = db
          /\ (ValidParam(req') /\ TargetKey(req') \notin DOMAIN db[req'.kind])
             => /\ resp'.code = 404
                /\ resp'.body.success = FALSE
                /\ Contains(resp'.body.error, RequestedId(req'))]_vars

C10_Witness ==
    /\ req.op = "get"
    /\ resp.code = 404
    /\ resp.body.success = FALSE
    /\ DOMAIN db[req.kind] # {}
    /\ TargetKey(req) \notin DOMAIN db[req.kind]
    /\ Contains(resp.body.error, RequestedId(req))

\* C11: a delete of a valid id that is not in the store answers 404 with
\* success = false, not 500, and leaves the store as it is; the same delete
\* repeated right after answers 404 again, the store still unchanged.
C11_DeleteMissingIdempotent ==
    [][/\ (/\ req'.op = "delete"
           /\ ValidParam(req')
           /\ TargetKey(req') \notin DOMAIN db[req'.kind])
          => /\ resp'.code = 404
             /\ resp'.body.success = FALSE
             /\ db' = db
       /\ (/\ req.op = "delete"
           /\ resp.code = 404
           /\ req' = req)
          => /\ resp' = resp
             /\ db' = db]_vars

C11_Witness ==
    /\ req.op = "delete"
    /\ resp.code = 404
    /\ resp.body.success = FALSE
    /\ TargetKey(req) \notin DOMAIN db[req.kind]
    /\ DOMAIN db[req.kind] # {}

\* C12: a delete answers success exactly when that call removed the entity
\* with the requested id, and it removes nothing else; right after a
\* successful delete a get of the id answers 404 and a list of the kind does
\* not contain the id.
C12_DeleteHard ==
    [][/\ req'.op = "delete"
          => /\ (resp'.code = 200 /\ resp'.body.success = TRUE)
                <=> (/\ TargetKey(req') \in DOMAIN db[req'.kind]
                     /\ TargetKey(req') \notin DOMAIN db'[req'.kind])
             /\ DOMAIN db'[req'.kind] = (DOMAIN db[req'.kind]) \ {TargetKey(req')}
             /\ \A k \in DOMAIN db'[req'.kind] : db'[req'.kind][k] = db[req'.kind][k]
             /\ \A kind \in Kinds \ {req'.kind} : db'[kind] = db[kind]
       /\ (/\ req.op = "delete"
           /\ resp.code = 200
           /\ req'.kind = req.kind)
          => /\ (req'.op = "get" /\ req'.param = req.param) => resp'.code = 404
             /\ (req'.op = "list" /\ resp'.code = 200)
                => \A n \in DOMAIN resp'.body.data.items :
                      ShownKey(resp'.body.data.items[n]) # TargetKey(req)]_vars

C12_Witness ==
    /\ req.op = "delete"
    /\ resp.code = 200
    /\ resp.body.success = TRUE
    /\ serial[req.kind] = 2
    /\ Cardinality(DOMAIN db[req.kind]) = 1
    /\ TargetKey(req) \notin DOMAIN db[req.kind]

\* A success envelope: success = true with data and no error.
SuccessEnvelope(body) ==
    /\ Has(body, "success") /\ body.success = TRUE
    /\ Has(body, "data")
    /\ ~Has(body, "error")

\* A failure envelope: success = false, data exactly null, an error text.
FailureEnvelope(body) ==
    /\ Has(body, "success") /\ body.success = FALSE
    /\ Has(body, "data") /\ body.data = Null
    /\ Has(body, "error")

\* C13: every response body is a success envelope or a failure envelope, a
\* failure status (4xx, 5xx) always with the failure envelope.
C13_EnvelopeShape ==
    req.op # "none"
    => IF resp.code \in {200, 201}
       THEN SuccessEnvelope(resp.body)
       ELSE FailureEnvelope(resp.body)

\* The body of request r passes the schema of its route.
ValidBody(r) == IF r.op = "create" THEN ValidCreate(r) ELSE ValidUpdate(r)

\* C14: a create or update whose body violates the schema, or is not JSON,
\* is answered 400 without any persistence call, the store unchanged.
C14_FailFast ==
    [][(req'.op \in {"create", "update"} /\ ~ValidBody(req'))
       => /\ resp'.code = 400
          /\ calls' = <<>>
          /\ db' = db]_vars

C14_Witness ==
    /\ req.op = "update"
    /\ ~ValidBody(req)
    /\ ValidParam(req)
    /\ TargetKey(req) \in DOMAIN db[req.kind]
    /\ resp.code = 400
    /\ calls = <<>>

\* The persistence calls that write.
WriteCalls == {"insert", "update", "delete", "add"}

\* C15: an update or delete that reaches the store reads before it writes,
\* and when the id does not exist (404) it has issued no write call.
C15_CheckBeforeWrite ==
    (req.op \in {"update", "delete"} /\ calls # <<>>)
    => /\ calls[1] \notin WriteCalls
       /\ resp.code = 404 => \A i \in DOMAIN calls : calls[i] \notin WriteCalls

\* The write calls among the first n calls of cs.
WritesAmong(cs, n) == {i \in 1..n : cs[i] \in WriteCalls}

\* C16: when a persistence call of a request throws, the response is 500 with
\* success = false and an error text that does not show the exception's
\* message; the failed call is the last call of the request (no retry, no
\* compensating write), the request has issued at most one write, and the
\* store is changed exactly when a write had completed before the failure.
C16_PersistenceFailure ==
    [][thrown' # NoFault
       => /\ resp'.code = 500
          /\ Has(resp'.body, "success") /\ resp'.body.success = FALSE
          /\ Has(resp'.body, "error") /\ resp'.body.error # <<>>
          /\ ~Contains(resp'.body.error, <<thrown'.message>>)
          /\ Len(calls') = thrown'.at
          /\ Cardinality(WritesAmong(calls', Len(calls'))) <= 1
          /\ (db' = db) <=> (WritesAmong(calls', Len(calls') - 1) = {})
          /\ (db' = db) => (now' = now /\ serial' = serial)]_vars

C16_Witness ==
    /\ thrown # NoFault
    /\ req.op = "update"
    /\ calls = <<"get", "update">>
    /\ resp.code = 500
    /\ TargetKey(req) \in DOMAIN db[req.kind]

\* C17: whatever exception is raised while an upload is handled, the error
\* text of the response does not show the exception's message.
C17_NoInternalDetail ==
    thrown # NoFault
    => (Has(resp.body, "error") => ~Contains(resp.body.error, <<thrown.message>>))

\* The file of upload request r is one the upload contract accepts.
Acceptable(r) ==
    /\ r.body # NoFile
    /\ r.body.type \in allowedTypes
    /\ r.body.size <= MaxFileSize

\* C18: an upload hands a file to the store only if its type is jpeg, png or
\* webp and its size is at most 5 MiB; such a file is handed to the store;
\* every other file is answered 400 with nothing stored, and a 10 MB image is
\* answered 400 with an error that names the size limit.
C18_UploadChecks ==
    (req.op = "upload" /\ req.body # NoFile)
    => /\ calls # <<>> => Acceptable(req)
       /\ Acceptable(req) => calls = <<"put">>
       /\ ~Acceptable(req) => resp.code = 400
       /\ (req.body.type \in allowedTypes /\ req.body.size = 10 * 1000 * 1000)
          => (resp.code = 400 /\ Contains(resp.body.error, <<"5MB">>))

\* The create request r leaves out status and is valid once the documented
\* defaults (status draft, isGroup false) are filled in.
OmitsStatus(r) ==
    /\ r.op = "create"
    /\ r.body # Malformed
    /\ ~Has(r.body, "status")
    /\ ValidCreate([r EXCEPT !.body = DefaultIsGroup(DefaultStatus(r.body))])

\* C19: a create that omits status is accepted with 201 and the entity is
\* stored and returned with status draft; a project that omits isGroup is
\* stored with isGroup false.
C19_CreateDefaults ==
    [][OmitsStatus(req')
       => /\ resp'.code = 201
          /\ LET e == db'[req'.kind][CreatedKey(serial', req'.kind)]
             IN /\ e.status = Str("draft")
                /\ req'.kind = "projects"
                   => e.isGroup = (IF Has(req'.body, "isGroup")
                                   THEN req'.body.isGroup ELSE Bool(FALSE))]_vars

\* Write n of the log supplied field k (an undefined value is not written).
Supplies(n, k) == Has(writes[n].fields, k) /\ writes[n].fields[k] # Undefined

\* The last applied write that supplied field k.
LastWrite(k) ==
    CHOOSE n \in DOMAIN writes :
        /\ Supplies(n, k)
        /\ \A m \in DOMAIN writes : m > n => ~Supplies(m, k)

\* The entity both requests name, as stored now.
SharedEntity ==
    LET kind == CHOOSE k \in Kinds : serial[k] = 1
    IN db[kind][IF backend = "relational" THEN 1 ELSE SharedParam]

\* Every field of the shared entity holds the value of the last applied
\* write that supplied it.
LastWriteWins ==
    \A k \in DOMAIN SharedEntity :
        /\ \E n \in DOMAIN writes : Supplies(n, k)
        /\ SharedEntity[k] = writes[LastWrite(k)].fields[k]

\* Both requests have been answered.
AllDone == \A c \in Clients : inflight[c].pc = "done"

\* The body of client c's PUT passes the update schema of its route.
ValidPut(c) ==
    ValidUpdate(Request("update", inflight[c].kind, SharedParam, "-", inflight[c].body))

\* C20: two concurrent updates of one existing entity both complete under
\* every interleaving (200 for a valid body, 400 otherwise), and at every
\* moment each stored field holds the value of the last applied write among
\* those that supplied the field: no field holds a value nobody wrote.
C20_LastWriteWins ==
    /\ [](/\ LastWriteWins
          /\ AllDone => \A c \in Clients :
                            inflight[c].resp.code = IF ValidPut(c) THEN 200 ELSE 400)
    /\ <>AllDone

\* Both updates applied, the one applied last built before the other one,
\* and a field that only the first one supplied.
C20_Witness ==
    /\ AllDone
    /\ Len(writes) = 3
    /\ writes[3].fields.updatedAt.ms < writes[2].fields.updatedAt.ms
    /\ Supplies(2, "title") /\ ~Supplies(3, "title")
    /\ Supplies(3, "status")
    /\ SharedEntity.title = writes[2].fields.title
    /\ SharedEntity.status = writes[3].fields.status

\* The id an entity stored under key shows in a response.
EntityId(kind, key, store) ==
    IF backend = "relational" THEN store[kind][key].id
    ELSE DocJson(FsGet(store[kind], key)).id

\* The id the store assigned to the entity under key.
AssignedId(key) == IF backend = "relational" THEN Num(key) ELSE Chars(key)

\* C21: every stored entity shows the id assigned at its creation, and no
\* request changes the createdAt of an entity it leaves in the store: an
\* update payload naming id or createdAt changes neither.
C21_IdentityImmutable ==
    [][\A kind \in Kinds : \A key \in DOMAIN db'[kind] :
          /\ EntityId(kind, key, db') = AssignedId(key)
          /\ key \in DOMAIN db[kind]
                => db'[kind][key].createdAt = db[kind][key].createdAt
          /\ key \notin DOMAIN db[kind]
                => /\ req'.op = "create"
                   /\ db'[kind][key].createdAt.ms = now']_vars

C21_Witness ==
    /\ req.op = "update"
    /\ req.body = ForgedBody
    /\ resp.code = 200
    /\ TargetKey(req) \in DOMAIN db[req.kind]
    /\ db[req.kind][TargetKey(req)].title = Str("X")
    /\ db[req.kind][TargetKey(req)].createdAt.ms < now
    /\ resp.body.data.createdAt # ForgedBody.createdAt
    /\ resp.body.data.id = AssignedId(TargetKey(req))

C23_TitleBounds ==
    \A kind \in Kinds : \A key \in DOMAIN db[kind] :
        /\ db[kind][key].title.t = "str"
        /\ Len(db[kind][key].title.v) >= 1
        /\ Len(db[kind][key].title.v) <= MaxTitleLen

\* The path parameter is the decimal representation of a positive integer.
PositiveDecimal(param) ==
    /\ param # <<>>
    /\ \A i \in DOMAIN param : IsDigit(param[i])
    /\ parseInt(param).n > 0
    /\ param = Decimal(parseInt(param).n)

\* C24: a relational request whose id parameter is not the decimal
\* representation of a positive integer is answered 400 without any
\* persistence call.
C24_StrictIdParam ==
    [][(/\ backend = "relational"
        /\ req'.op \in {"get", "update", "delete"}
        /\ ~PositiveDecimal(req'.param))
       => /\ resp'.code = 400
          /\ calls' = <<>>
          /\ db' = db]_vars

\* The entity both requests name is in the store.
SharedStored ==
    \E kind \in Kinds :
        serial[kind] = 1 /\ (IF backend = "relational" THEN 1 ELSE SharedParam) \in DOMAIN db[kind]

\* C25: of two concurrent DELETE requests for one stored entity, exactly one
\* is answered 200 and the other 404.
C25_OneDeleteSucceeds ==
    (AllDone /\ \A c \in Clients : inflight[c].op = "delete")
    => /\ ~SharedStored
       /\ \E c \in Clients :
            /\ inflight[c].resp.code = 200
            /\ \A d \in Clients \ {c} : inflight[d].resp.code = 404

\* C26: when a PUT runs concurrently with a DELETE of the same entity, the
\* PUT is answered 200, its write applied, or 404, never 500, and the entity
\* is gone once both are answered.
C26_UpdateAgainstDelete ==
    \A c, d \in Clients :
        (AllDone /\ inflight[c].op = "update" /\ inflight[d].op = "delete")
        => /\ inflight[d].resp.code = 200
           /\ ~SharedStored
           /\ inflight[c].resp.code \in {200, 404}
           /\ inflight[c].resp.code = 200
                <=> \E n \in DOMAIN writes : writes[n].client = c

\* C27: in the relational variant every stored entity whose status is
\* published has a publishedAt that is a date, not null.
C27_PublishedHasDate ==
    backend = "relational"
    => \A kind \in Kinds : \A key \in DOMAIN db[kind] :
          db[kind][key].status = Str("published")
          => /\ db[kind][key].publishedAt # Null
             /\ db[kind][key].publishedAt.t = "date"

\* A draft stored without publishedAt has just been published by an update
\* whose payload says publishedAt: null.
C27_Witness ==
    /\ backend = "relational"
    /\ req.op = "update"
    /\ resp.code = 200
    /\ Read(req.body, "status") = Str("published")
    /\ Read(req.body, "publishedAt") = Null
    /\ db[req.kind][TargetKey(req)].status = Str("published")
    /\ db[req.kind][TargetKey(req)].publishedAt = Date(now)
    /\ db[req.kind][TargetKey(req)].createdAt.ms < now

\* The body without its publishedAt key.
SansPublishedAt(body) == Strip(body, (DOMAIN body) \ {"publishedAt"})

\* C28: in the relational variant a valid update whose payload says
\* publishedAt: null is answered, and changes the store, exactly as the
\* payload without publishedAt would; and no update makes a stored non-null
\* publishedAt null.
C28_NullIsAbsent ==
    [][(/\ backend = "relational"
        /\ req'.op = "update"
        /\ ValidParam(req')
        /\ ValidUpdate(req'))
       => LET kind == req'.kind
              id == TargetKey(req')
              bare == StorageUpdate(kind, db[kind], id,
                                    PutData(UpdateSchema(kind, SansPublishedAt(req'.body)).data),
                                    now')
          IN /\ Read(req'.body, "publishedAt") = Null
                => /\ UpdateSchema(kind, SansPublishedAt(req'.body)).ok
                   /\ db'[kind] = bare.tbl
                   /\ (resp'.code = 200) <=> Truthy(bare.result)
                   /\ resp'.code = 200 => resp'.body.data = JsonObject(bare.result)
             /\ (id \in DOMAIN db[kind] /\ db[kind][id].publishedAt # Null)
                => /\ id \in DOMAIN db'[kind]
                   /\ db'[kind][id].publishedAt # Null]_vars

\* A PUT saying only publishedAt: null has left the stored date in place.
C28_Witness ==
    /\ backend = "relational"
    /\ req.op = "update"
    /\ resp.code = 200
    /\ req.body = MkBody("-", "-", Null)
    /\ db[req.kind][TargetKey(req)].publishedAt # Null
    /\ db[req.kind][TargetKey(req)].updatedAt = Date(now)

\* The entity stored under key in kind is the same before and after the step.
Untouched(kind, key) ==
    /\ key \in DOMAIN db'[kind]
    /\ db'[kind][key] = db[kind][key]

\* C29: a get or list changes nothing in the store; a create leaves every
\* entity stored before as it was; an update or delete leaves every entity
\* but the targeted one, and every entity of the other resource, as it was
\* and adds none.
C29_Frame ==
    [][/\ req'.op \in {"get", "list"} => db' = db
       /\ req'.op = "create"
            => \A kind \in Kinds : \A key \in DOMAIN db[kind] : Untouched(kind, key)
       /\ req'.op \in {"update", "delete"}
            => \A kind \in Kinds :
                  /\ DOMAIN db'[kind] \subseteq DOMAIN db[kind]
                  /\ \A key \in DOMAIN db[kind] :
                        (kind # req'.kind \/ key # TargetKey(req')) => Untouched(kind, key)]_vars

\* One of two entities of a kind has been updated, the other one not.
C29_Witness ==
    /\ req.op = "update"
    /\ resp.code = 200
    /\ Cardinality(DOMAIN db[req.kind]) = 2
    /\ \A key \in DOMAIN db[req.kind] :
          IF key = TargetKey(req)
          THEN db[req.kind][key].title = Str("X") /\ db[req.kind][key].updatedAt.ms = now
          ELSE db[req.kind][key].title = Str("A") /\ db[req.kind][key].updatedAt.ms < now

\* The request r asks the object-storage app to remove an object that an
\* upload stored and no delete has removed since.
RemovesStored(r) ==
    /\ backend = "firestore"
    /\ r.op = "remove"
    /\ r.param \in uploads

\* C30: in the object-storage app every object stored by a successful upload
\* can be removed through the API: a DELETE of a filename an upload returned,
\* not deleted since and met by no storage failure, passes the filename
\* validation, finds the object, answers 200 and removes it; and a successful
\* upload never returns a filename that a stored object already has.
C30_UploadedCanBeRemoved ==
    [][/\ (RemovesStored(req') /\ thrown' = NoFault)
            => (resp'.code = 200 /\ req'.param \notin uploads')
       /\ (backend = "firestore" /\ req'.op = "upload" /\ resp'.code = 201)
            => resp'.body.data.filename.v \notin uploads]_vars

\* C30 for the uploads whose file name ends in jpg, jpeg, png or webp, removed
\* by the delete handler that looks the object up under its bare name, apart
\* from the repeated filename.
C30_ImagesRemovedByBareName ==
    [][(RemovesStored(req') /\ thrown' = NoFault /\ ValidFilename(req'.param)
        /\ calls' # <<>> /\ resp'.code # 404)
            => (resp'.code = 200 /\ req'.param \notin uploads')]_vars

\* An uploaded file whose name has no image extension is stored and its
\* delete is refused as an invalid name.
C30_StoredButRefused ==
    /\ backend = "firestore"
    /\ req.op = "remove"
    /\ req.param \in uploads
    /\ resp.code = 400

============================================================================
